---- MODULE Spec2Model ----
(***************************************************************************)
(* Model of github.com/talav/mapstructure: the recursive decoding engine   *)
(* (Unmarshaler), the struct metadata cache (StructMetadataCache), the     *)
(* error types and the converter registry.                                 *)
(*                                                                         *)
(* Representation.  Go strings that the code parses, concatenates or       *)
(* compares (map keys, field names, tag values, default literals, field    *)
(* paths, string values) are sequences of one-character strings, so that   *)
(* splitting a tag, building a path and parsing a number are computed.     *)
(* reflect.Type is the type's Go name as a TLA+ string; Kind, Elem and the *)
(* declared fields are tables over those names.  A Go value is a record    *)
(* tagged with its kind k and its dynamic type t.                          *)
(***************************************************************************)
EXTENDS Integers, Sequences, FiniteSets, TLC

VARIABLES
    converters,      \* Unmarshaler.converters: the registry, target type -> converter
    tagName,         \* StructMetadataCache.tagName
    defaultTagName,  \* StructMetadataCache.defaultTagName
    cache,           \* StructMetadataCache.cache (sync.Map): type -> *StructMetadata
    calls,           \* number of Unmarshal calls made on this Unmarshaler
    pc,              \* "idle", or "returned" while the caller holds a call's outcome;
                     \* "running" while a call is followed step by step, "fatal"
                     \* when the runtime ended the process
    result,          \* the `result` argument of the last call
    data,            \* the `data` argument of the last call
    pre,             \* what result pointed to before the last call
    dest,            \* what result points to after the last call
    err,             \* what the last call returned (or that it panicked)
    log,             \* registry lookups, converter calls, metadata lookups,
                     \* default uses and slot writes of the last call, in order
    gor,             \* the goroutines that decode concurrently on the Unmarshaler:
                     \* goroutine -> its position, arguments, locals and outcome
    inst             \* which goroutine built the *StructMetadata instance that
                     \* the cache holds for a type

vars == <<converters, tagName, defaultTagName, cache, calls, pc, result, data, pre, dest, err, log,
          gor, inst>>

----------------------------------------------------------------------------
(* Bounds of the model *)

\* Unmarshal calls made one after the other on one Unmarshaler
MaxCalls == 2
\* longest source sequence offered to a sequence field
MaxElems == 2
\* deepest nesting of engine calls the goroutine's stack holds (the stand-in
\* for the Go runtime's limit on the size of a goroutine's stack)
MaxDepth == 12

----------------------------------------------------------------------------
(* Strings as character sequences *)

Digits == <<"0", "1", "2", "3", "4", "5", "6", "7", "8", "9">>

DigitVal(c) == CHOOSE d \in 0..9 : Digits[d + 1] = c

IsDigit(c) == \E d \in 0..9 : Digits[d + 1] = c

RECURSIVE Itoa(_)
\* strconv.Itoa / the %d verb
Itoa(n) ==
    IF n < 0 THEN <<"-">> \o Itoa(-n)
    ELSE IF n < 10 THEN <<Digits[n + 1]>>
    ELSE Itoa(n \div 10) \o <<Digits[(n % 10) + 1]>>

RECURSIVE DigitsValue(_, _)
DigitsValue(s, acc) ==
    IF s = <<>> THEN acc ELSE DigitsValue(Tail(s), acc * 10 + DigitVal(Head(s)))

\* strconv.ParseInt(s, 10, 64): an optional sign and then one or more digits
Atoi(s) ==
    LET body == IF s # <<>> /\ Head(s) \in {"-", "+"} THEN Tail(s) ELSE s
        neg  == s # <<>> /\ Head(s) = "-"
    IN  IF body = <<>> \/ \E i \in 1..Len(body) : ~IsDigit(body[i])
        THEN [n |-> 0, ok |-> FALSE]
        ELSE [n |-> IF neg THEN -DigitsValue(body, 0) ELSE DigitsValue(body, 0), ok |-> TRUE]

\* index of the first c in s, 0 when there is none
IndexOf(s, c) ==
    IF \E i \in 1..Len(s) : s[i] = c
    THEN CHOOSE i \in 1..Len(s) : s[i] = c /\ \A j \in 1..(i - 1) : s[j] # c
    ELSE 0

----------------------------------------------------------------------------
(* String constants: map keys, declared field names, literals *)

s_value == <<"v", "a", "l", "u", "e">>
s_inner == <<"i", "n", "n", "e", "r">>
s_items == <<"i", "t", "e", "m", "s">>
s_name == <<"n", "a", "m", "e">>
s_count == <<"c", "o", "u", "n", "t">>
s_port == <<"p", "o", "r", "t">>
s_title == <<"t", "i", "t", "l", "e">>
s_tags == <<"t", "a", "g", "s">>
s_extra == <<"e", "x", "t", "r", "a">>
s_status == <<"s", "t", "a", "t", "u", "s">>
s_readers == <<"r", "e", "a", "d", "e", "r", "s">>
s_cfg == <<"c", "f", "g">>
s_Value == <<"V", "a", "l", "u", "e">>
s_Inner == <<"I", "n", "n", "e", "r">>
s_Items == <<"I", "t", "e", "m", "s">>
s_Name == <<"N", "a", "m", "e">>
s_Count == <<"C", "o", "u", "n", "t">>
s_Secret == <<"S", "e", "c", "r", "e", "t">>
s_Port == <<"P", "o", "r", "t">>
s_Meta == <<"M", "e", "t", "a">>
s_Title == <<"T", "i", "t", "l", "e">>
s_Tags == <<"T", "a", "g", "s">>
s_Extra == <<"E", "x", "t", "r", "a">>
s_Status == <<"S", "t", "a", "t", "u", "s">>
s_Readers == <<"R", "e", "a", "d", "e", "r", "s">>
s_Hidden == <<"H", "i", "d", "d", "e", "n">>
s_hidden == <<"h", "i", "d", "d", "e", "n">>
s_Cfg == <<"C", "f", "g">>
s_next == <<"n", "e", "x", "t">>
s_kids == <<"k", "i", "d", "s">>
s_any == <<"a", "n", "y">>
s_Next == <<"N", "e", "x", "t">>
s_Kids == <<"K", "i", "d", "s">>
s_Any == <<"A", "n", "y">>
s_anon == <<"a", "n", "o", "n">>
s_active == <<"a", "c", "t", "i", "v", "e">>
s_closed == <<"c", "l", "o", "s", "e", "d">>
s_pending == <<"p", "e", "n", "d", "i", "n", "g">>
s_bogus == <<"b", "o", "g", "u", "s">>
s_root == <<"r", "o", "o", "t">>
s_bob == <<"b", "o", "b">>
s_empty == <<>>
s_dash == <<"-">>
s_dashOmitempty == <<"-", ",", "o", "m", "i", "t", "e", "m", "p", "t", "y">>
s_countOmitempty == <<"c", "o", "u", "n", "t", ",", "o", "m", "i", "t", "e", "m", "p", "t", "y">>
s_commaOmitempty == <<",", "o", "m", "i", "t", "e", "m", "p", "t", "y">>
s_10 == <<"1", "0">>
s_7 == <<"7">>
s_x == <<"x">>

----------------------------------------------------------------------------
(* reflect.Type: the types of the model, by Go name *)

StructTypes == {"Inner", "Meta", "Nested", "Config", "Doc", "Misc", "Outer", "Wrap", "Node", "Bag"}

Types ==
    StructTypes \cup
    {"int", "string", "bool", "Status", "any", "io.Reader", "*strings.Reader",
     "map[string]any", "map[string]string", "Params", "*int", "*Inner", "*Node",
     "[]int", "[]any", "[]string", "[]io.Reader", "[]*strings.Reader", "[]Node",
     "[2]int", "[0]int", "P"}

\* reflect.Type.Kind
Kind(t) ==
    CASE t \in StructTypes -> "struct"
      [] t \in {"int", "Status"} -> "int"
      [] t = "string" -> "string"
      [] t = "bool" -> "bool"
      [] t \in {"any", "io.Reader"} -> "interface"
      [] t \in {"map[string]any", "map[string]string", "Params"} -> "map"
      [] t \in {"*int", "*Inner", "*Node", "*strings.Reader", "P"} -> "ptr"
      [] t \in {"[]int", "[]any", "[]string", "[]io.Reader", "[]*strings.Reader", "[]Node"} -> "slice"
      [] t \in {"[2]int", "[0]int"} -> "array"

\* reflect.Type.Elem
Elem(t) ==
    CASE t = "*int" -> "int"
      [] t = "*Inner" -> "Inner"
      [] t = "[]int" -> "int"
      [] t = "[]any" -> "any"
      [] t = "[]string" -> "string"
      [] t = "[]io.Reader" -> "io.Reader"
      [] t = "[]*strings.Reader" -> "*strings.Reader"
      [] t = "[]Node" -> "Node"
      [] t = "*Node" -> "Node"
      [] t = "P" -> "P"
      [] t = "[2]int" -> "int"
      [] t = "[0]int" -> "int"
      [] t = "map[string]any" -> "any"
      [] t = "Params" -> "any"
      [] t = "map[string]string" -> "string"

\* the method set rule of reflect.Type.Implements: every type implements any,
\* *strings.Reader has a Read method, the other types of the model have none
Implements(src, iface) ==
    \/ iface = "any"
    \/ iface = "io.Reader" /\ src \in {"*strings.Reader", "io.Reader"}

\* reflect.Type.AssignableTo: identical types, or an interface the source implements
AssignableTo(src, dst) ==
    \/ src = dst
    \/ Kind(dst) = "interface" /\ Implements(src, dst)

\* one declared field (reflect.StructField): Tag maps the tag names present on
\* the field to their raw values
Field(name, typ, anonymous, exported, tag) ==
    [Name |-> name, Type |-> typ, Anonymous |-> anonymous, Exported |-> exported, Tag |-> tag]

NoTag == <<>>

\* reflect.Type.Field(i) for i = 0..NumField-1, as the sequence of declared fields
StructFields(t) ==
    CASE t = "Inner" ->
            << Field(s_Value, "int", FALSE, TRUE, ("schema" :> s_value)),
               Field(s_Hidden, "string", FALSE, TRUE, ("schema" :> s_dashOmitempty)) >>
      [] t = "Meta" ->
            << Field(s_Value, "string", FALSE, TRUE, ("schema" :> s_value)) >>
      [] t = "Nested" ->
            << Field(s_Inner, "Inner", FALSE, TRUE, ("schema" :> s_inner)),
               Field(s_Items, "[]int", FALSE, TRUE, ("schema" :> s_items)) >>
      [] t = "Config" ->
            << Field(s_Name, "string", FALSE, TRUE, ("schema" :> s_name @@ "default" :> s_anon)),
               Field(s_Count, "int", FALSE, TRUE, ("schema" :> s_countOmitempty @@ "default" :> s_10)),
               Field(s_Secret, "string", FALSE, TRUE, ("schema" :> s_dash @@ "default" :> s_x)),
               Field(s_hidden, "int", FALSE, FALSE, ("schema" :> s_count)),
               Field(s_Port, "*int", FALSE, TRUE, ("schema" :> s_commaOmitempty)) >>
      [] t = "Doc" ->
            << Field(s_Inner, "Inner", TRUE, TRUE, NoTag),
               Field(s_Meta, "Meta", TRUE, TRUE, NoTag),
               Field(s_Value, "string", FALSE, TRUE, ("schema" :> s_value)),
               Field(s_Title, "string", FALSE, TRUE, ("schema" :> s_title @@ "default" :> s_anon)) >>
      [] t = "Misc" ->
            << Field(s_Tags, "map[string]string", FALSE, TRUE, ("schema" :> s_tags)),
               Field(s_Extra, "any", FALSE, TRUE, ("schema" :> s_extra)),
               Field(s_Status, "Status", FALSE, TRUE, ("schema" :> s_status @@ "default" :> s_active)),
               Field(s_Readers, "[]io.Reader", FALSE, TRUE, ("schema" :> s_readers)) >>
      [] t = "Outer" ->
            << Field(s_Cfg, "Config", FALSE, TRUE, ("schema" :> s_cfg)) >>
      [] t = "Wrap" ->
            << Field(s_Inner, "*Inner", TRUE, TRUE, NoTag),
               Field(s_Status, "Status", TRUE, TRUE, NoTag),
               Field(s_Meta, "Meta", TRUE, TRUE, NoTag),
               Field(s_Name, "string", FALSE, TRUE, ("schema" :> s_name @@ "default" :> s_empty)) >>
      [] t = "Node" ->
            << Field(s_Value, "int", FALSE, TRUE, ("schema" :> s_value)),
               Field(s_Next, "*Node", FALSE, TRUE, ("schema" :> s_next)),
               Field(s_Kids, "[]Node", FALSE, TRUE, ("schema" :> s_kids)) >>
      [] t = "Bag" ->
            << Field(s_Any, "[]any", FALSE, TRUE, ("schema" :> s_any)),
               Field(s_Readers, "[]io.Reader", FALSE, TRUE, ("schema" :> s_readers)) >>

NumField(t) == Len(StructFields(t))

\* reflect.StructTag.Lookup
TagLookup(tag, key) ==
    IF key \in DOMAIN tag THEN [ok |-> TRUE, v |-> tag[key]] ELSE [ok |-> FALSE, v |-> s_empty]

\* reflect.StructTag.Get
TagGet(tag, key) == TagLookup(tag, key).v

----------------------------------------------------------------------------
(* Go values.  k is the kind, t the dynamic type (reflect.TypeOf). *)

\* the untyped nil interface value
NilV == [k |-> "nil"]

IntV(t, n) == [i |-> n, t |-> t, k |-> "int"]

StrV(s) == [s |-> s, t |-> "string", k |-> "string"]

BoolV(b) == [t |-> "bool", k |-> "bool", b |-> b]

\* a map value; m is a function from keys to values
MapV(t, m) == [t |-> t, k |-> "map", m |-> m]

\* a slice value; isNil tells the nil slice from the empty one
SliceV(t, xs) == [t |-> t, k |-> "slice", xs |-> xs, isNil |-> FALSE]

NilSlice(t) == [t |-> t, k |-> "slice", xs |-> <<>>, isNil |-> TRUE]

\* an array value
ArrayV(t, xs) == [t |-> t, k |-> "array", xs |-> xs]

\* a pointer value; p is <<>> for the nil pointer and <<pointee>> otherwise
PtrV(t, p) == [t |-> t, k |-> "ptr", p |-> p]

\* a struct value; fs holds every declared field by position
StructV(t, fs) == [t |-> t, k |-> "struct", fs |-> fs]

\* reflect.TypeOf(data), for data # nil
TypeOf(v) == v.t

RECURSIVE Zero(_)
\* reflect.Zero(t) / the zero value reflect.New and reflect.MakeSlice fill in
Zero(t) ==
    CASE Kind(t) = "int" -> IntV(t, 0)
      [] Kind(t) = "string" -> StrV(s_empty)
      [] Kind(t) = "bool" -> BoolV(FALSE)
      [] Kind(t) = "interface" -> NilV
      [] Kind(t) = "map" -> MapV(t, <<>>)
      [] Kind(t) = "ptr" -> PtrV(t, <<>>)
      [] Kind(t) = "slice" -> NilSlice(t)
      [] Kind(t) = "array" -> ArrayV(t, <<IntV(Elem(t), 0), IntV(Elem(t), 0)>>)
      [] Kind(t) = "struct" ->
            StructV(t, [i \in 1..NumField(t) |-> Zero(StructFields(t)[i].Type)])

----------------------------------------------------------------------------
(* errors.go *)

\* the nil error
NoErr == [k |-> "nil"]

\* a non-nil cause is the text of the converter's error, "" is the nil error
NewConversionError(fieldPath, value, targetType, cause) ==
    [k |-> "ConversionError",
     FieldPath |-> IF fieldPath = s_empty THEN s_root ELSE fieldPath,
     Value |-> value,
     TargetType |-> targetType,
     Cause |-> cause]

NewValidationError(message) == [k |-> "ValidationError", Message |-> message]

\* fmt.Errorf("%s: no converter registered for type %v", fieldPath, typ):
\* an error of the fmt package's own string type that wraps nothing
NoConverterError(fieldPath, typ) ==
    [typ |-> typ, k |-> "errorString", path |-> fieldPath, text |-> "no converter registered for type"]

\* fmt.Errorf("%s: %w", fullPath, err)
WrapError(fullPath, e) == [k |-> "wrapError", prefix |-> fullPath, inner |-> e]

\* a panic unwinding out of the call (no error value is returned)
Panic(why) == [k |-> "panic", why |-> why]

RECURSIVE AsConversionError(_)
\* errors.As(err, &convErr): the set holding the first *ConversionError of the
\* error chain, empty when the chain has none
AsConversionError(e) ==
    CASE e.k = "ConversionError" -> {e}
      [] e.k = "wrapError" -> AsConversionError(e.inner)
      [] OTHER -> {}

RECURSIVE AsValidationError(_)
AsValidationError(e) ==
    CASE e.k = "ValidationError" -> {e}
      [] e.k = "wrapError" -> AsValidationError(e.inner)
      [] OTHER -> {}

\* %T of a value: the name of its dynamic type, "<nil>" for the nil interface
TypeNameOf(v) == IF v.k = "nil" THEN "<nil>" ELSE v.t

RECURSIVE Error(_)
\* err.Error(): the message as a sequence, the characters of the paths one by
\* one and each piece of fixed text, type name or cause as one token
Error(e) ==
    CASE e.k = "ConversionError" ->
            e.FieldPath \o <<": cannot convert ", TypeNameOf(e.Value), " to ", e.TargetType>>
            \o (IF e.Cause # "" THEN <<": ", e.Cause>> ELSE <<>>)
      [] e.k = "ValidationError" -> <<e.Message>>
      [] e.k = "errorString" -> e.path \o <<": ", e.text, " ", e.typ>>
      [] e.k = "wrapError" -> e.prefix \o <<": ">> \o Error(e.inner)

----------------------------------------------------------------------------
(* cache.go *)

DefaultTagName == "schema"

DefaultValueTagName == "default"

\* NewStructMetadataCache: the two tag names the cache is built with
NewStructMetadataCache(tn, dtn) ==
    [tagName |-> IF tn = "" THEN DefaultTagName ELSE tn,
     defaultTagName |-> IF dtn = "" THEN DefaultValueTagName ELSE dtn]

\* tagparser.ParseWithName, by its interface: the canonical name is the text
\* before the first comma, the options follow it
ParseWithName(tagValue) ==
    LET c == IndexOf(tagValue, ",")
    IN  [err |-> FALSE, Name |-> IF c = 0 THEN tagValue ELSE SubSeq(tagValue, 1, c - 1)]

\* faulty variant of parseFieldTag: only the exact tag "-" skips the field, a
\* tag that parses to the name "-" maps the field under the key "-"
parseFieldTag_ExactDashOnly(tagValue, fieldName) ==
    IF tagValue = s_empty THEN [mapKey |-> fieldName, skip |-> FALSE]
    ELSE IF tagValue = s_dash THEN [mapKey |-> s_empty, skip |-> TRUE]
    ELSE LET tag == ParseWithName(tagValue)
         IN  IF tag.err \/ tag.Name = s_empty THEN [mapKey |-> fieldName, skip |-> FALSE]
             ELSE [mapKey |-> tag.Name, skip |-> FALSE]

\* parseFieldTag: <<mapKey, skip>>
parseFieldTag(tagValue, fieldName) ==
    IF tagValue = s_empty THEN [mapKey |-> fieldName, skip |-> FALSE]
    ELSE IF tagValue = s_dash THEN [mapKey |-> s_empty, skip |-> TRUE]
    ELSE LET tag == ParseWithName(tagValue)
         IN  IF tag.err \/ tag.Name = s_empty THEN [mapKey |-> fieldName, skip |-> FALSE]
             ELSE IF tag.Name = s_dash THEN [mapKey |-> s_empty, skip |-> TRUE]
             ELSE [mapKey |-> tag.Name, skip |-> FALSE]

\* a faulty variant: with the tag name "-" the schema annotations are still
\* read
FieldKey_AnnotationsUnderDash(tn, f) ==
    parseFieldTag(TagGet(f.Tag, IF tn = "-" THEN DefaultTagName ELSE tn), f.Name)

\* the mapKey and skip that buildMetadata computes for declared field f
FieldKey(tn, f) ==
    IF tn = "-" THEN [mapKey |-> f.Name, skip |-> FALSE]
    ELSE parseFieldTag(TagGet(f.Tag, tn), f.Name)

\* a faulty FieldMetadata: an empty default literal counts as no default
FieldMetadata_NoEmptyDefault(tn, dtn, typ, i) ==
    LET f == StructFields(typ)[i + 1]
        d == TagLookup(f.Tag, dtn)
    IN  [Type |-> f.Type,
         StructFieldName |-> f.Name,
         MapKey |-> FieldKey(tn, f).mapKey,
         Index |-> i,
         Embedded |-> f.Anonymous,
         Default |-> IF d.ok /\ d.v # s_empty THEN <<d.v>> ELSE <<>>]

\* the FieldMetadata buildMetadata appends for field i (0-based) of typ;
\* Default is <<>> for the nil *string and <<literal>> otherwise
FieldMetadata(tn, dtn, typ, i) ==
    LET f == StructFields(typ)[i + 1]
        d == TagLookup(f.Tag, dtn)
    IN  [Type |-> f.Type,
         StructFieldName |-> f.Name,
         MapKey |-> FieldKey(tn, f).mapKey,
         Index |-> i,
         Embedded |-> f.Anonymous,
         Default |-> IF d.ok THEN <<d.v>> ELSE <<>>]

RECURSIVE buildFields(_, _, _, _)
\* the loop of buildMetadata from field i on
buildFields(tn, dtn, typ, i) ==
    IF i >= NumField(typ) THEN <<>>
    ELSE LET f == StructFields(typ)[i + 1]
         IN  IF ~f.Exported \/ FieldKey(tn, f).skip
             THEN buildFields(tn, dtn, typ, i + 1)
             ELSE <<FieldMetadata(tn, dtn, typ, i)>> \o buildFields(tn, dtn, typ, i + 1)

\* StructMetadataCache.buildMetadata
buildMetadata(tn, dtn, typ) == [Fields |-> buildFields(tn, dtn, typ, 0)]

\* faulty variant of LoadOrStore: a plain Store, the caller's value replaces
\* what the map holds
LoadOrStore_Overwrite(c, typ, value) ==
    [cache |-> (typ :> value) @@ [x \in DOMAIN c \ {typ} |-> c[x]], actual |-> value, loaded |-> FALSE]

\* faulty variant of LoadOrStore: a caller that finds an entry gets it before
\* its fields are there
LoadOrStore_Unfinished(c, typ, value) ==
    IF typ \in DOMAIN c
    THEN [cache |-> c, actual |-> [Fields |-> <<>>], loaded |-> TRUE]
    ELSE [cache |-> (typ :> value) @@ c, actual |-> value, loaded |-> FALSE]

\* a faulty Load: a hit yields a descriptor that lost all fields but the first
Load_Truncated(c, typ) ==
    IF typ \in DOMAIN c
    THEN [ok |-> TRUE, value |-> [Fields |-> SubSeq(c[typ].Fields, 1, 1)]]
    ELSE [ok |-> FALSE, value |-> [Fields |-> <<>>]]

\* c.cache.Load(typ) on the sync.Map's content c
Load(c, typ) ==
    IF typ \in DOMAIN c THEN [ok |-> TRUE, value |-> c[typ]]
    ELSE [ok |-> FALSE, value |-> [Fields |-> <<>>]]

\* c.cache.LoadOrStore(typ, value): store-if-absent, atomic
LoadOrStore(c, typ, value) ==
    IF typ \in DOMAIN c
    THEN [cache |-> c, actual |-> c[typ], loaded |-> TRUE]
    ELSE [cache |-> (typ :> value) @@ c, actual |-> value, loaded |-> FALSE]

\* StructMetadataCache.GetMetadata run to completion by one goroutine: Load,
\* and on a miss buildMetadata and LoadOrStore.  c is the sync.Map's content.
GetMetadata(c, tn, dtn, typ) ==
    IF Load(c, typ).ok
    THEN [cache |-> c, metadata |-> Load(c, typ).value]
    ELSE LET stored == LoadOrStore(c, typ, buildMetadata(tn, dtn, typ))
         IN  [cache |-> stored.cache, metadata |-> stored.actual]

----------------------------------------------------------------------------
(* The converter registry and the converters *)

\* the built-in table NewDefaultConverterRegistry seeds, for the types of the model
BuiltinConverters ==
    ("int" :> "convertInt") @@ ("string" :> "convertString") @@ ("bool" :> "convertBool")

RECURSIVE MergeConverters_FirstWins(_, _)
\* a faulty merge: an entry that is already present is kept
MergeConverters_FirstWins(reg, additional) ==
    IF additional = <<>> THEN reg
    ELSE MergeConverters_FirstWins(reg @@ Head(additional), Tail(additional))

RECURSIVE MergeConverters(_, _)
\* maps.Copy of each additional map in turn: a later map overrides an earlier one
MergeConverters(reg, additional) ==
    IF additional = <<>> THEN reg
    ELSE MergeConverters(Head(additional) @@ reg, Tail(additional))

NewDefaultConverterRegistry(additional) == MergeConverters(BuiltinConverters, additional)

NewConverterRegistry(m) == m

\* ConverterRegistry.Find: exact match on the target type
Find(reg, typ) ==
    IF typ \in DOMAIN reg THEN [ok |-> TRUE, conv |-> reg[typ]] ELSE [ok |-> FALSE, conv |-> ""]

\* what a Converter returns: the reflect.Value (valid = FALSE for the zero
\* reflect.Value) and the error text ("" for the nil error)
Converted(v) == [err |-> "", v |-> v, valid |-> TRUE]

ConvertFailed(why) == [err |-> why, v |-> NilV, valid |-> FALSE]

ZeroValueNilError == [err |-> "", v |-> NilV, valid |-> FALSE]

\* convertInt: integers pass, booleans are 0/1, strings are parsed as decimal
\* integers and the empty string is 0
convertInt(v) ==
    CASE v.k = "int" -> Converted(IntV("int", v.i))
      [] v.k = "bool" -> Converted(IntV("int", IF v.b THEN 1 ELSE 0))
      [] v.k = "string" ->
            IF v.s = s_empty THEN Converted(IntV("int", 0))
            ELSE IF Atoi(v.s).ok THEN Converted(IntV("int", Atoi(v.s).n))
            ELSE ConvertFailed("invalid syntax")
      [] OTHER -> ConvertFailed("unsupported type")

\* convertString: strings pass, booleans render as "1"/"0", integers in decimal
convertString(v) ==
    CASE v.k = "string" -> Converted(StrV(v.s))
      [] v.k = "bool" -> Converted(StrV(IF v.b THEN <<"1">> ELSE <<"0">>))
      [] v.k = "int" -> Converted(StrV(Itoa(v.i)))
      [] OTHER -> ConvertFailed("unsupported type")

\* convertBool: booleans pass, numbers are non-zero-is-true, strings are parsed
convertBool(v) ==
    CASE v.k = "bool" -> Converted(BoolV(v.b))
      [] v.k = "int" -> Converted(BoolV(v.i # 0))
      [] v.k = "string" ->
            IF v.s \in {<<"t", "r", "u", "e">>, <<"1">>} THEN Converted(BoolV(TRUE))
            ELSE IF v.s \in {<<"f", "a", "l", "s", "e">>, <<"0">>, s_empty} THEN Converted(BoolV(FALSE))
            ELSE ConvertFailed("invalid syntax")
      [] OTHER -> ConvertFailed("unsupported type")

\* the statusConverter of TestUnmarshaler_Unmarshal_DefaultValues_CustomConverter:
\* the zero reflect.Value and a nil error for what it does not recognise
statusConverter(v) ==
    IF v.k # "string" \/ v.t # "string" THEN ZeroValueNilError
    ELSE CASE v.s = s_pending -> Converted(IntV("Status", 0))
           [] v.s = s_active -> Converted(IntV("Status", 1))
           [] v.s = s_closed -> Converted(IntV("Status", 2))
           [] OTHER -> ZeroValueNilError

\* the statusConverter of the README: an error for what it does not recognise
statusConverterDoc(v) ==
    IF v.k # "string" \/ v.t # "string" THEN ConvertFailed("expected string")
    ELSE CASE v.s = s_pending -> Converted(IntV("Status", 0))
           [] v.s = s_active -> Converted(IntV("Status", 1))
           [] v.s = s_closed -> Converted(IntV("Status", 2))
           [] OTHER -> ConvertFailed("unknown status")

\* conv(data) for the converter the registry holds under that name
Convert(conv, v) ==
    CASE conv = "convertInt" -> convertInt(v)
      [] conv = "convertString" -> convertString(v)
      [] conv = "convertBool" -> convertBool(v)
      [] conv = "statusConverter" -> statusConverter(v)
      [] conv = "statusConverterDoc" -> statusConverterDoc(v)

----------------------------------------------------------------------------
(* mapstructure.go: the decoding engine.                                   *)
(*                                                                         *)
(* Every step takes the Unmarshaler's state st (its registry, the cache's  *)
(* tag names and content, and the log), the value to decode, the slot's    *)
(* declared type typ, the slot's present content cur and the field path,   *)
(* and gives [err, v, st]: the error returned, the slot's content when the *)
(* step returns (also when it fails: what was written stays written) and   *)
(* the state after it.  A panic is carried as err and unwinds through      *)
(* every caller.  Every slot reached from Unmarshal is the pointee of the  *)
(* result pointer, an exported field of it, a fresh slice element or a     *)
(* pointee, so rv.CanSet() holds at each and its early return is not taken.*)
(***************************************************************************)

Ret(e, v, st) == [err |-> e, v |-> v, st |-> st]

Logged(st, op, typ, path) ==
    [st EXCEPT !.log = Append(@, [typ |-> typ, path |-> path, op |-> op])]

\* faulty variant of buildFieldPath: the enclosing path is dropped
buildFieldPath_FieldOnly(base, field) == field

\* buildFieldPath
buildFieldPath(base, field) ==
    IF base = s_empty THEN field ELSE base \o <<".">> \o field

\* fmt.Sprintf("%s[%d]", fieldPath, i)
elemPathOf(fieldPath, i) == fieldPath \o <<"[">> \o Itoa(i) \o <<"]">>

\* rv.Set(converted) after a converter returned a nil error: reflect panics on
\* the zero Value and on a value that is not assignable to the slot's type
setConverted(st, c, typ, cur, fieldPath) ==
    IF ~c.valid
    THEN Ret(Panic("reflect: call of reflect.Value.Set on zero Value"), cur, st)
    ELSE IF ~AssignableTo(TypeOf(c.v), typ)
    THEN Ret(Panic("reflect.Set: value is not assignable to type"), cur, st)
    ELSE Ret(NoErr, c.v, Logged(st, "Set", typ, fieldPath))

\* the data.(map[string]any) type assertion of unmarshalStruct and of
\* unmarshalEmbeddedField: the dynamic type must be exactly map[string]any
IsStringAnyMap(d) == d.k # "nil" /\ TypeOf(d) = "map[string]any"

RECURSIVE unmarshalValue(_, _, _, _, _)
RECURSIVE unmarshalPtr(_, _, _, _, _)
RECURSIVE unmarshalSlice(_, _, _, _, _)
RECURSIVE unmarshalSliceElements(_, _, _, _, _)
RECURSIVE convertElements(_, _, _, _, _, _)
RECURSIVE unmarshalStruct(_, _, _, _, _)
RECURSIVE unmarshalFields(_, _, _, _, _, _)
RECURSIVE unmarshalField(_, _, _, _, _)
RECURSIVE unmarshalEmbeddedField(_, _, _, _, _)

\* a faulty unmarshalValue: a registered converter is tried before the value
\* is looked at
unmarshalValue_ConverterFirst(st, d, typ, cur, fieldPath) ==
    LET found == Find(st.converters, typ)
        st1 == Logged(st, "Find", typ, fieldPath)
    IN  IF found.ok
        THEN LET c == Convert(found.conv, d)
                 st2 == Logged(st1, "Convert", typ, fieldPath)
             IN  IF c.err # ""
                 THEN Ret(NewConversionError(fieldPath, d, typ, c.err), cur, st2)
                 ELSE setConverted(st2, c, typ, cur, fieldPath)
        ELSE IF d.k # "nil" /\ AssignableTo(TypeOf(d), typ)
        THEN Ret(NoErr, d, Logged(st1, "Set", typ, fieldPath))
        ELSE CASE Kind(typ) = "ptr" -> unmarshalPtr(st1, d, typ, cur, fieldPath)
               [] Kind(typ) = "slice" -> unmarshalSlice(st1, d, typ, cur, fieldPath)
               [] Kind(typ) = "struct" -> unmarshalStruct(st1, d, typ, cur, fieldPath)
               [] OTHER -> Ret(NoConverterError(fieldPath, typ), cur, st1)

\* Unmarshaler.unmarshalValue
unmarshalValue(st, d, typ, cur, fieldPath) ==
    IF d.k # "nil" /\ AssignableTo(TypeOf(d), typ)
    THEN Ret(NoErr, d, Logged(st, "Set", typ, fieldPath))
    ELSE LET found == Find(st.converters, typ)
             st1 == Logged(st, "Find", typ, fieldPath)
         IN  IF found.ok
             THEN LET c == Convert(found.conv, d)
                      st2 == Logged(st1, "Convert", typ, fieldPath)
                  IN  IF c.err # ""
                      THEN Ret(NewConversionError(fieldPath, d, typ, c.err), cur, st2)
                      ELSE setConverted(st2, c, typ, cur, fieldPath)
             ELSE CASE Kind(typ) = "ptr" -> unmarshalPtr(st1, d, typ, cur, fieldPath)
                    [] Kind(typ) = "slice" -> unmarshalSlice(st1, d, typ, cur, fieldPath)
                    [] Kind(typ) = "struct" -> unmarshalStruct(st1, d, typ, cur, fieldPath)
                    [] OTHER -> Ret(NoConverterError(fieldPath, typ), cur, st1)

\* a faulty unmarshalPtr: a new pointee is allocated even when the pointer
\* already points to one
unmarshalPtr_AlwaysFresh(st, d, typ, cur, fieldPath) ==
    IF d.k = "nil"
    THEN Ret(NoErr, Zero(typ), Logged(st, "Set", typ, fieldPath))
    ELSE LET st1 == Logged(st, "Set", typ, fieldPath)
             r == unmarshalValue(st1, d, Elem(typ), Zero(Elem(typ)), fieldPath)
         IN  Ret(r.err, PtrV(typ, <<r.v>>), r.st)

\* a faulty unmarshalPtr: when decoding the pointee fails the pointer is put
\* back to what it was
unmarshalPtr_RollBack(st, d, typ, cur, fieldPath) ==
    IF d.k = "nil"
    THEN Ret(NoErr, Zero(typ), Logged(st, "Set", typ, fieldPath))
    ELSE LET pointee == IF cur.p = <<>> THEN Zero(Elem(typ)) ELSE cur.p[1]
             st1 == IF cur.p = <<>> THEN Logged(st, "Set", typ, fieldPath) ELSE st
             r == unmarshalValue(st1, d, Elem(typ), pointee, fieldPath)
         IN  IF r.err # NoErr THEN Ret(r.err, cur, r.st)
             ELSE Ret(NoErr, PtrV(typ, <<r.v>>), r.st)

\* Unmarshaler.unmarshalPtr
unmarshalPtr(st, d, typ, cur, fieldPath) ==
    IF d.k = "nil"
    THEN Ret(NoErr, Zero(typ), Logged(st, "Set", typ, fieldPath))
    ELSE LET pointee == IF cur.p = <<>> THEN Zero(Elem(typ)) ELSE cur.p[1]
             st1 == IF cur.p = <<>> THEN Logged(st, "Set", typ, fieldPath) ELSE st
             r == unmarshalValue(st1, d, Elem(typ), pointee, fieldPath)
         IN  Ret(r.err, PtrV(typ, <<r.v>>), r.st)

\* a faulty unmarshalSlice: an empty source gives the nil slice
unmarshalSlice_EmptyAsNil(st, d, typ, cur, fieldPath) ==
    IF d.k = "nil"
    THEN Ret(NoErr, Zero(typ), Logged(st, "Set", typ, fieldPath))
    ELSE IF d.k \notin {"slice", "array"}
    THEN Ret(NewConversionError(fieldPath, d, typ, ""), cur, st)
    ELSE IF Len(d.xs) = 0
    THEN Ret(NoErr, Zero(typ), Logged(st, "Set", typ, fieldPath))
    ELSE unmarshalSliceElements(st, d, typ, cur, fieldPath)

\* Unmarshaler.unmarshalSlice
unmarshalSlice(st, d, typ, cur, fieldPath) ==
    IF d.k = "nil"
    THEN Ret(NoErr, Zero(typ), Logged(st, "Set", typ, fieldPath))
    ELSE IF d.k \notin {"slice", "array"}
    THEN Ret(NewConversionError(fieldPath, d, typ, ""), cur, st)
    ELSE IF Len(d.xs) = 0
    THEN Ret(NoErr, SliceV(typ, <<>>), Logged(st, "Set", typ, fieldPath))
    ELSE unmarshalSliceElements(st, d, typ, cur, fieldPath)

\* the regular conversion path of unmarshalSliceElements from index i (0-based)
\* on; slice is the scratch slice made by reflect.MakeSlice
convertElements(st, dataVal, typ, slice, fieldPath, i) ==
    IF i >= Len(dataVal.xs) THEN Ret(NoErr, slice, st)
    ELSE LET r == unmarshalValue(st, dataVal.xs[i + 1], Elem(typ), slice.xs[i + 1],
                                 elemPathOf(fieldPath, i))
             slice1 == [slice EXCEPT !.xs[i + 1] = r.v]
         IN  IF r.err # NoErr THEN Ret(r.err, slice1, r.st)
             ELSE convertElements(r.st, dataVal, typ, slice1, fieldPath, i + 1)

\* a faulty unmarshalSliceElements: the elements are decoded in place, so
\* that a failure leaves the elements decoded so far in the destination
unmarshalSliceElements_InPlace(st, dataVal, typ, cur, fieldPath) ==
    LET dataLen == Len(dataVal.xs)
        slice == SliceV(typ, [i \in 1..dataLen |-> Zero(Elem(typ))])
    IN  IF AssignableTo(TypeOf(dataVal), typ)
        THEN Ret(NoErr, dataVal, Logged(st, "Set", typ, fieldPath))
        ELSE IF Elem(TypeOf(dataVal)) = Elem(typ)
        THEN Ret(NoErr, SliceV(typ, dataVal.xs), Logged(st, "Set", typ, fieldPath))
        ELSE IF Kind(Elem(typ)) = "interface"
        THEN IF AssignableTo(Elem(TypeOf(dataVal)), Elem(typ))
             THEN Ret(NoErr, SliceV(typ, dataVal.xs), Logged(st, "Set", typ, fieldPath))
             ELSE Ret(Panic("reflect.Set: value is not assignable to type"), cur, st)
        ELSE LET r == convertElements(Logged(st, "Set", typ, fieldPath), dataVal, typ, slice, fieldPath, 0)
             IN  Ret(r.err, r.v, r.st)

\* Unmarshaler.unmarshalSliceElements (dataLen = Len(dataVal.xs) > 0)
unmarshalSliceElements(st, dataVal, typ, cur, fieldPath) ==
    LET dataLen == Len(dataVal.xs)
        slice == SliceV(typ, [i \in 1..dataLen |-> Zero(Elem(typ))])
    IN  IF AssignableTo(TypeOf(dataVal), typ)
        THEN Ret(NoErr, dataVal, Logged(st, "Set", typ, fieldPath))
        ELSE IF Elem(TypeOf(dataVal)) = Elem(typ)
        THEN Ret(NoErr, SliceV(typ, dataVal.xs), Logged(st, "Set", typ, fieldPath))
        ELSE IF Kind(Elem(typ)) = "interface"
        THEN \* slice.Index(i).Set(dataVal.Index(i)): reflect checks the source's
             \* element type against the interface and panics at index 0 if it
             \* does not implement it
             IF AssignableTo(Elem(TypeOf(dataVal)), Elem(typ))
             THEN Ret(NoErr, SliceV(typ, dataVal.xs), Logged(st, "Set", typ, fieldPath))
             ELSE Ret(Panic("reflect.Set: value is not assignable to type"), cur, st)
        ELSE LET r == convertElements(st, dataVal, typ, slice, fieldPath, 0)
             IN  IF r.err # NoErr THEN Ret(r.err, cur, r.st)
                 ELSE Ret(NoErr, r.v, Logged(r.st, "Set", typ, fieldPath))

\* faulty variant of unmarshalEmbeddedField: the nested mapping under the
\* field's name is not looked for, the whole mapping is always passed
unmarshalEmbeddedField_AlwaysPromoted(st, dataMap, cur, field, fieldPath) ==
    IF Kind(field.Type) # "struct" THEN Ret(NoErr, cur, st)
    ELSE unmarshalValue(st, dataMap, field.Type, cur, fieldPath)

\* faulty variant of unmarshalEmbeddedField: without a nested mapping under
\* the field's name the embedded struct is left alone
unmarshalEmbeddedField_NestedOnly(st, dataMap, cur, field, fieldPath) ==
    IF Kind(field.Type) # "struct" THEN Ret(NoErr, cur, st)
    ELSE IF field.StructFieldName \in DOMAIN dataMap.m
            /\ IsStringAnyMap(dataMap.m[field.StructFieldName])
    THEN unmarshalValue(st, dataMap.m[field.StructFieldName], field.Type, cur, fieldPath)
    ELSE Ret(NoErr, cur, st)

\* faulty variant of unmarshalEmbeddedField: the nested mapping under the
\* field's name is looked for before the field's kind
unmarshalEmbeddedField_NestedFirst(st, dataMap, cur, field, fieldPath) ==
    IF field.StructFieldName \in DOMAIN dataMap.m
       /\ IsStringAnyMap(dataMap.m[field.StructFieldName])
    THEN unmarshalValue(st, dataMap.m[field.StructFieldName], field.Type, cur, fieldPath)
    ELSE IF Kind(field.Type) # "struct" THEN Ret(NoErr, cur, st)
    ELSE unmarshalValue(st, dataMap, field.Type, cur, fieldPath)

\* Unmarshaler.unmarshalEmbeddedField
unmarshalEmbeddedField(st, dataMap, cur, field, fieldPath) ==
    IF Kind(field.Type) # "struct" THEN Ret(NoErr, cur, st)
    ELSE IF field.StructFieldName \in DOMAIN dataMap.m
            /\ IsStringAnyMap(dataMap.m[field.StructFieldName])
    THEN unmarshalValue(st, dataMap.m[field.StructFieldName], field.Type, cur, fieldPath)
    ELSE unmarshalValue(st, dataMap, field.Type, cur, fieldPath)

\* faulty variant of the loop body: a present nil falls back to the default
unmarshalField_DefaultOverNil(st, dataMap, cur, field, fieldPath) ==
    IF field.Embedded THEN unmarshalEmbeddedField(st, dataMap, cur, field, fieldPath)
    ELSE LET exists == field.MapKey \in DOMAIN dataMap.m
             useDefault == field.Default # <<>> /\ (~exists \/ dataMap.m[field.MapKey] = NilV)
             fullPath == buildFieldPath(fieldPath, field.MapKey)
         IN  IF ~exists /\ field.Default = <<>> THEN Ret(NoErr, cur, st)
             ELSE LET value == IF useDefault THEN StrV(field.Default[1]) ELSE dataMap.m[field.MapKey]
                      st1 == IF useDefault THEN Logged(st, "Default", field.Type, fullPath) ELSE st
                      r == unmarshalValue(st1, value, field.Type, cur, fullPath)
                  IN  IF r.err = NoErr \/ r.err.k = "panic" THEN r
                      ELSE Ret(WrapError(fullPath, r.err), r.v, r.st)

\* faulty variant of the loop body: a default literal is stored as it is in a
\* string field and dropped for a field of any other type
unmarshalField_DefaultUnconverted(st, dataMap, cur, field, fieldPath) ==
    IF field.Embedded THEN unmarshalEmbeddedField(st, dataMap, cur, field, fieldPath)
    ELSE LET exists == field.MapKey \in DOMAIN dataMap.m
             fullPath == buildFieldPath(fieldPath, field.MapKey)
         IN  IF ~exists /\ field.Default = <<>> THEN Ret(NoErr, cur, st)
             ELSE IF ~exists
             THEN IF field.Type = "string"
                  THEN Ret(NoErr, StrV(field.Default[1]),
                           Logged(Logged(st, "Default", field.Type, fullPath), "Set", field.Type, fullPath))
                  ELSE Ret(NoErr, cur, Logged(st, "Default", field.Type, fullPath))
             ELSE LET r == unmarshalValue(st, dataMap.m[field.MapKey], field.Type, cur, fullPath)
                  IN  IF r.err = NoErr \/ r.err.k = "panic" THEN r
                      ELSE Ret(WrapError(fullPath, r.err), r.v, r.st)

\* faulty variant of the loop body: a field whose key is absent and which has
\* no default is reset to its zero value
unmarshalField_AbsentZeroed(st, dataMap, cur, field, fieldPath) ==
    IF field.Embedded THEN unmarshalEmbeddedField(st, dataMap, cur, field, fieldPath)
    ELSE LET exists == field.MapKey \in DOMAIN dataMap.m
             fullPath == buildFieldPath(fieldPath, field.MapKey)
         IN  IF ~exists /\ field.Default = <<>> THEN Ret(NoErr, Zero(field.Type), st)
             ELSE LET value == IF exists THEN dataMap.m[field.MapKey] ELSE StrV(field.Default[1])
                      st1 == IF exists THEN st ELSE Logged(st, "Default", field.Type, fullPath)
                      r == unmarshalValue(st1, value, field.Type, cur, fullPath)
                  IN  IF r.err = NoErr \/ r.err.k = "panic" THEN r
                      ELSE Ret(WrapError(fullPath, r.err), r.v, r.st)

\* the body of unmarshalStruct's loop for one field: cur is the field's content
unmarshalField(st, dataMap, cur, field, fieldPath) ==
    IF field.Embedded THEN unmarshalEmbeddedField(st, dataMap, cur, field, fieldPath)
    ELSE LET exists == field.MapKey \in DOMAIN dataMap.m
             fullPath == buildFieldPath(fieldPath, field.MapKey)
         IN  IF ~exists /\ field.Default = <<>> THEN Ret(NoErr, cur, st)
             ELSE LET value == IF exists THEN dataMap.m[field.MapKey] ELSE StrV(field.Default[1])
                      st1 == IF exists THEN st ELSE Logged(st, "Default", field.Type, fullPath)
                      r == unmarshalValue(st1, value, field.Type, cur, fullPath)
                  IN  IF r.err = NoErr \/ r.err.k = "panic" THEN r
                      ELSE Ret(WrapError(fullPath, r.err), r.v, r.st)

\* a faulty loop of unmarshalStruct: after a field failed the fields after it
\* are still decoded, and the first failure is returned at the end
unmarshalFields_KeepGoing(st, dataMap, cur, fields, fieldPath, j) ==
    IF j > Len(fields) THEN Ret(NoErr, cur, st)
    ELSE LET field == fields[j]
             r == unmarshalField(st, dataMap, cur.fs[field.Index + 1], field, fieldPath)
             cur1 == [cur EXCEPT !.fs[field.Index + 1] = r.v]
             rest == unmarshalFields(r.st, dataMap, cur1, fields, fieldPath, j + 1)
         IN  IF r.err # NoErr THEN Ret(r.err, rest.v, rest.st) ELSE rest

\* the loop of unmarshalStruct over metadata.Fields from position j (1-based) on
unmarshalFields(st, dataMap, cur, fields, fieldPath, j) ==
    IF j > Len(fields) THEN Ret(NoErr, cur, st)
    ELSE LET field == fields[j]
             r == unmarshalField(st, dataMap, cur.fs[field.Index + 1], field, fieldPath)
             cur1 == [cur EXCEPT !.fs[field.Index + 1] = r.v]
         IN  IF r.err # NoErr THEN Ret(r.err, cur1, r.st)
             ELSE unmarshalFields(r.st, dataMap, cur1, fields, fieldPath, j + 1)

\* a faulty unmarshalStruct: a mapping of any string-keyed map type is taken
\* for the struct's data
unmarshalStruct_AnyStringKeyed(st, d, typ, cur, fieldPath) ==
    IF d.k # "map"
    THEN Ret(NewConversionError(fieldPath, d, typ, ""), cur, st)
    ELSE LET got == GetMetadata(st.cache, st.tagName, st.defaultTagName, typ)
             st1 == Logged([st EXCEPT !.cache = got.cache], "GetMetadata", typ, fieldPath)
         IN  unmarshalFields(st1, MapV("map[string]any", d.m), cur, got.metadata.Fields, fieldPath, 1)

\* Unmarshaler.unmarshalStruct
unmarshalStruct(st, d, typ, cur, fieldPath) ==
    IF ~IsStringAnyMap(d)
    THEN Ret(NewConversionError(fieldPath, d, typ, ""), cur, st)
    ELSE LET got == GetMetadata(st.cache, st.tagName, st.defaultTagName, typ)
             st1 == Logged([st EXCEPT !.cache = got.cache], "GetMetadata", typ, fieldPath)
         IN  unmarshalFields(st1, d, cur, got.metadata.Fields, fieldPath, 1)

\* faulty variant of validateResultPointer: one message for both rejections
validateResultPointer_OneMessage(res) ==
    IF res.kind # "ptr" \/ res.isNil THEN NewValidationError("result pointer is nil")
    ELSE NoErr

\* validateResultPointer: res is the `result` argument, by what reflect sees
validateResultPointer(res) ==
    IF res.kind # "ptr" THEN NewValidationError("result must be a pointer")
    ELSE IF res.isNil THEN NewValidationError("result pointer is nil")
    ELSE NoErr

\* Unmarshaler.Unmarshal; p is what result points to (for a valid pointer)
UnmarshalerUnmarshal(st, d, res, p) ==
    LET verr == validateResultPointer(res)
    IN  IF verr # NoErr THEN Ret(verr, p, st)
        ELSE unmarshalValue(st, d, res.elem, p, s_empty)

----------------------------------------------------------------------------
(* The callers' inputs: destinations and source mappings *)

\* a *strings.Reader, opaque to the engine
ReaderV == [t |-> "*strings.Reader", k |-> "opaque"]

AnyMap(m) == MapV("map[string]any", m)

RECURSIVE SeqsUpTo(_, _)
\* every sequence over S of length at most n
SeqsUpTo(S, n) ==
    IF n = 0 THEN {<<>>}
    ELSE LET shorter == SeqsUpTo(S, n - 1)
         IN  shorter \cup {Append(xs, x) : xs \in {ys \in shorter : Len(ys) = n - 1}, x \in S}

\* elements offered inside a []any: one that is assigned as it is and one
\* that fails to convert
ElemValues == {IntV("int", 1), StrV(s_x)}

\* values offered under the key of a []int field
ItemsValues ==
    {SliceV("[]any", xs) : xs \in SeqsUpTo(ElemValues, MaxElems)}
    \cup {SliceV("[]any", <<StrV(s_7)>>),
          SliceV("[]int", <<IntV("int", 1), IntV("int", 2)>>), NilSlice("[]int"),
          ArrayV("[2]int", <<IntV("int", 3), IntV("int", 4)>>), NilV, StrV(s_x)}

InnerValue(n, h) == StructV("Inner", <<IntV("int", n), StrV(h)>>)

ConfigValue(name, count, secret, hid, port) ==
    StructV("Config", <<StrV(name), IntV("int", count), StrV(secret), IntV("int", hid), port>>)

\* a destination that already holds data when Unmarshal is called
Prefilled(t) ==
    CASE t = "Inner" -> InnerValue(5, s_bob)
      [] t = "Nested" -> StructV("Nested", <<InnerValue(5, s_bob), SliceV("[]int", <<IntV("int", 9)>>)>>)
      [] t = "Config" -> ConfigValue(s_bob, 5, s_bob, 7, PtrV("*int", <<IntV("int", 4)>>))
      [] t = "Doc" -> StructV("Doc", <<InnerValue(5, s_bob), StructV("Meta", <<StrV(s_bob)>>),
                                      StrV(s_bob), StrV(s_bob)>>)
      [] t = "Misc" -> StructV("Misc", <<MapV("map[string]string", (s_x :> StrV(s_x))), IntV("int", 3),
                                        IntV("Status", 2), SliceV("[]io.Reader", <<ReaderV>>)>>)
      [] t = "Outer" -> StructV("Outer", <<ConfigValue(s_bob, 5, s_bob, 7, PtrV("*int", <<IntV("int", 4)>>))>>)
      [] t = "Wrap" -> StructV("Wrap", <<PtrV("*Inner", <<InnerValue(5, s_bob)>>), IntV("Status", 2),
                                        StructV("Meta", <<StrV(s_bob)>>), StrV(s_bob)>>)
      [] t = "Node" -> StructV("Node", <<IntV("int", 5),
                                        PtrV("*Node", <<StructV("Node", <<IntV("int", 6), PtrV("*Node", <<>>),
                                                                          NilSlice("[]Node")>>)>>),
                                        SliceV("[]Node", <<>>)>>)
      [] t = "Bag" -> StructV("Bag", <<SliceV("[]any", <<StrV(s_bob)>>), SliceV("[]io.Reader", <<ReaderV>>)>>)
      [] t = "int" -> IntV("int", 5)

\* the destination types offered to Unmarshal
DestTypes == {"Inner", "Nested", "Config", "Doc", "Misc", "Outer", "int"}

\* for destination type t: the keys a source mapping may hold and, per key,
\* the values offered under it
KeyValues(t) ==
    CASE t = "Inner" ->
            << <<s_value, {IntV("int", 1), StrV(s_7), StrV(s_x)}>>,
               <<s_Hidden, {StrV(s_x)}>>,
               <<s_dash, {StrV(s_x)}>> >>
      [] t = "Nested" ->
            << <<s_inner, {AnyMap((s_value :> IntV("int", 1))), AnyMap((s_value :> StrV(s_x))),
                           InnerValue(2, s_x)}>>,
               <<s_items, ItemsValues>> >>
      [] t = "Config" ->
            << <<s_name, {StrV(s_x)}>>,
               <<s_count, {IntV("int", 0), StrV(s_7), StrV(s_x), NilV}>>,
               <<s_Secret, {StrV(s_x)}>>,
               <<s_Port, {IntV("int", 8), StrV(s_x), NilV}>> >>
      [] t = "Doc" ->
            << <<s_Inner, {AnyMap((s_value :> IntV("int", 1))), StrV(s_x)}>>,
               <<s_Meta, {AnyMap((s_value :> StrV(s_x)))}>>,
               <<s_value, {IntV("int", 2), StrV(s_x)}>> >>
      [] t = "Misc" ->
            << <<s_tags, {MapV("map[string]string", (s_x :> StrV(s_x)))}>>,
               <<s_extra, {IntV("int", 1), NilV}>>,
               <<s_status, {StrV(s_closed), StrV(s_bogus)}>>,
               <<s_readers, {SliceV("[]any", <<ReaderV>>), SliceV("[]*strings.Reader", <<ReaderV>>)}>> >>
      [] t = "Outer" ->
            << <<s_cfg, {ConfigValue(s_x, 1, s_x, 0, PtrV("*int", <<>>)),
                         AnyMap((s_name :> StrV(s_x))), AnyMap((s_count :> StrV(s_x)))}>> >>
      [] t = "int" ->
            << <<s_value, {IntV("int", 1)}>> >>

RECURSIVE MapsOver(_, _)
\* every mapping that holds, for each of the first n keys of kvs, either
\* nothing or one of the values offered under it
MapsOver(kvs, n) ==
    IF n = 0 THEN {<<>>}
    ELSE LET rest == MapsOver(kvs, n - 1)
         IN  rest \cup {(kvs[n][1] :> v) @@ m : m \in rest, v \in kvs[n][2]}

\* the source mappings offered for destination type t
SourceMaps(t) == {AnyMap(m) : m \in MapsOver(KeyValues(t), Len(KeyValues(t)))}

\* the `result` arguments: a pointer to a destination of type t, the nil
\* pointer of that type, a non-pointer value of type t, and the untyped nil
PointerTo(t) == [isNil |-> FALSE, kind |-> "ptr", elem |-> t]

NilPointerTo(t) == [isNil |-> TRUE, kind |-> "ptr", elem |-> t]

NonPointer(t) == [isNil |-> FALSE, kind |-> Kind(t), elem |-> t]

UntypedNil == [isNil |-> TRUE, kind |-> "invalid", elem |-> ""]

InvalidResults == {NilPointerTo("Inner"), NonPointer("Inner"), UntypedNil}

\* NewUnmarshaler(fieldCache, converters)
NewUnmarshaler(fieldCache, reg) ==
    [converters |-> reg, tagName |-> fieldCache.tagName,
     defaultTagName |-> fieldCache.defaultTagName]

\* NewDefaultUnmarshaler()
NewDefaultUnmarshaler ==
    NewUnmarshaler(NewStructMetadataCache(DefaultTagName, DefaultValueTagName),
                   NewDefaultConverterRegistry(<<>>))

\* the Unmarshalers the callers construct: the default one, the two with a
\* custom converter for Status, and the one that maps fields by declared name
Unmarshalers ==
    { NewDefaultUnmarshaler,
      NewUnmarshaler(NewStructMetadataCache("", ""),
                     NewDefaultConverterRegistry(<< ("Status" :> "statusConverter") >>)),
      NewUnmarshaler(NewStructMetadataCache("schema", "default"),
                     NewDefaultConverterRegistry(<< ("Status" :> "statusConverterDoc") >>)),
      NewUnmarshaler(NewStructMetadataCache("-", ""), NewDefaultConverterRegistry(<<>>)) }

----------------------------------------------------------------------------
(* The state machine: one Unmarshaler, called by one goroutine at a time *)

NoCall == [isNil |-> TRUE, kind |-> "none", elem |-> ""]

Init ==
    /\ \E u \in Unmarshalers :
          /\ converters = u.converters
          /\ tagName = u.tagName
          /\ defaultTagName = u.defaultTagName
    /\ cache = <<>>
    /\ calls = 0
    /\ pc = "idle"
    /\ result = NoCall
    /\ data = NilV
    /\ pre = NilV
    /\ dest = NilV
    /\ err = NoErr
    /\ log = <<>>
    /\ gor = <<>>
    /\ inst = <<>>

\* u.Unmarshal(d, res), where res points to p (or is no valid pointer)
Unmarshal(res, d, p) ==
    /\ pc = "idle"
    /\ calls < MaxCalls
    /\ LET st == [converters |-> converters, tagName |-> tagName,
                  defaultTagName |-> defaultTagName, cache |-> cache, log |-> <<>>]
           r == UnmarshalerUnmarshal(st, d, res, p)
       IN  /\ dest' = r.v
           /\ err' = r.err
           /\ cache' = r.st.cache
           /\ log' = r.st.log
    /\ result' = res
    /\ data' = d
    /\ pre' = p
    /\ calls' = calls + 1
    /\ pc' = "returned"
    /\ UNCHANGED <<converters, tagName, defaultTagName, gor, inst>>

\* a call with a pointer to a fresh or an already filled destination of type t
UnmarshalValid ==
    \E t \in DestTypes : \E d \in SourceMaps(t) : \E p \in {Zero(t), Prefilled(t)} :
        Unmarshal(PointerTo(t), d, p)

\* a call whose result argument is not a non-nil pointer
UnmarshalInvalid ==
    \E res \in InvalidResults : \E d \in SourceMaps("Inner") :
        Unmarshal(res, d, IF res.kind = "struct" THEN Prefilled("Inner") ELSE NilV)

\* the caller is done with the outcome of the call
Return ==
    /\ pc = "returned"
    /\ pc' = "idle"
    /\ result' = NoCall
    /\ data' = NilV
    /\ pre' = NilV
    /\ dest' = NilV
    /\ err' = NoErr
    /\ log' = <<>>
    /\ UNCHANGED <<converters, tagName, defaultTagName, cache, calls, gor, inst>>

Next == UnmarshalValid \/ UnmarshalInvalid \/ Return

Spec == Init /\ [][Next]_vars

----------------------------------------------------------------------------
(* Properties of a call, stated over the record the call leaves *)

\* the last call was given a non-nil pointer
ValidCall == pc = "returned" /\ result.kind = "ptr" /\ ~result.isNil

\* the last call was given something else
InvalidCall == pc = "returned" /\ (result.kind # "ptr" \/ result.isNil)

\* the last call was given a non-nil pointer to a struct
StructCall == ValidCall /\ Kind(result.elem) = "struct"

\* the Unmarshaler as a further call would find it (the cache only saves work)
CallState ==
    [converters |-> converters, tagName |-> tagName,
     defaultTagName |-> defaultTagName, cache |-> cache, log |-> <<>>]

\* the descriptors of the destination struct of the last call
TopFields == buildMetadata(tagName, defaultTagName, result.elem).Fields

\* every field before position j of the destination was decoded without
\* error: the call returned none, or decoding those fields alone gives none
PrefixOk(j) ==
    \/ err = NoErr
    \/ j = 1
    \/ unmarshalFields(CallState, data, pre, SubSeq(TopFields, 1, j - 1), s_empty, 1).err = NoErr

\* the default literal of the field decoded at that path was used
DefaultUsed(path) == \E i \in DOMAIN log : log[i].op = "Default" /\ log[i].path = path

\* the last call panicked
Panicked == pc = "returned" /\ err.k = "panic"

\* C1: Unmarshal returns normally, with nil or an error, for every source
\* mapping, destination and converter registry: no call panics, not even when
\* a registered converter returns the zero reflect.Value or a value of another
\* type with a nil error, or when the destination is a slice of an interface
\* type that the source's element type does not implement.
C1_UnmarshalNeverPanics == ~Panicked

\* C2: a result that is not a pointer (the untyped nil included) is rejected
\* with the ValidationError "result must be a pointer", a nil pointer with the
\* ValidationError "result pointer is nil"; the source mapping is not read, no
\* converter or metadata lookup is made and nothing is written.
C2_ResultPointerValidated ==
    InvalidCall =>
        /\ err = [k |-> "ValidationError",
                  Message |-> IF result.kind # "ptr" THEN "result must be a pointer"
                              ELSE "result pointer is nil"]
        /\ log = <<>>
        /\ dest = pre
        /\ (calls = 1 => cache = <<>>)

\* C2 happens: a nil pointer was passed together with a non-empty mapping
C2_Witness ==
    /\ InvalidCall
    /\ result = NilPointerTo("Inner")
    /\ data.m # <<>>
    /\ err = NewValidationError("result pointer is nil")

\* C3: every error Unmarshal returns is a ConversionError or a
\* ValidationError, or wraps one that errors.As retrieves; in particular the
\* failure for a slot of an unsupported kind without a converter is a
\* ConversionError.
C3_ErrorsAreStructured ==
    (pc = "returned" /\ err # NoErr /\ ~Panicked) =>
        (AsConversionError(err) # {} \/ AsValidationError(err) # {})

\* the descriptors of Config when it is decoded as the field cfg of Outer
CfgFields == buildMetadata(tagName, defaultTagName, "Config").Fields

\* the key that the field Cfg of Outer is decoded from
CfgKey == IF tagName = "-" THEN s_Cfg ELSE s_cfg

\* C4: for a non-embedded field with a default annotation whose source key is
\* present, the default literal is not used and the field holds what decoding
\* the present value alone gives, also when that value is nil or the zero
\* value; a default literal is used only for a key that is absent.
C4_PresentKeyBeatsDefault ==
    StructCall =>
        /\ \A j \in DOMAIN TopFields :
              LET f == TopFields[j]
              IN  (~f.Embedded /\ f.Default # <<>> /\ f.MapKey \in DOMAIN data.m) =>
                      /\ ~DefaultUsed(f.MapKey)
                      /\ PrefixOk(j) =>
                            dest.fs[f.Index + 1] =
                                unmarshalValue(CallState, data.m[f.MapKey], f.Type,
                                               pre.fs[f.Index + 1], f.MapKey).v
        /\ \A i \in DOMAIN log :
              (log[i].op = "Default" /\ IndexOf(log[i].path, ".") = 0) =>
                  log[i].path \notin DOMAIN data.m
        /\ result.elem = "Outer" =>
              \A j \in DOMAIN CfgFields :
                  DefaultUsed(CfgKey \o <<".">> \o CfgFields[j].MapKey) =>
                      /\ CfgKey \in DOMAIN data.m
                      /\ IsStringAnyMap(data.m[CfgKey])
                      /\ CfgFields[j].MapKey \notin DOMAIN data.m[CfgKey].m

\* C4 happens: Count (default "10") held 5, its key is present with the zero
\* value and the field ends as 0; Name's key is absent and Name gets its default
C4_Witness ==
    /\ StructCall
    /\ result.elem = "Config"
    /\ tagName = "schema"
    /\ s_count \in DOMAIN data.m
    /\ data.m[s_count] = IntV("int", 0)
    /\ pre.fs[2] = IntV("int", 5)
    /\ dest.fs[2] = IntV("int", 0)
    /\ dest.fs[1] = StrV(s_anon)
    /\ DefaultUsed(s_name)
    /\ err = NoErr

\* C5: decoding a mapping that lacks the key of a field with default literal
\* d has the same outcome for that field (its value, and the error returned)
\* as decoding the mapping extended with that key mapped to the string d, and
\* takes the same lookups, converter calls and writes.
C5_DefaultAsExplicitString ==
    StructCall =>
        \A j \in DOMAIN TopFields :
            LET f == TopFields[j]
            IN  (~f.Embedded /\ f.Default # <<>> /\ f.MapKey \notin DOMAIN data.m) =>
                    LET ext == AnyMap((f.MapKey :> StrV(f.Default[1])) @@ data.m)
                        r == UnmarshalerUnmarshal(CallState, ext, result, pre)
                    IN  /\ r.v.fs[f.Index + 1] = dest.fs[f.Index + 1]
                        /\ r.err = err
                        /\ r.st.log = SelectSeq(log, LAMBDA e :
                                          ~(e.op = "Default" /\ e.path = f.MapKey))

\* C5 happens: the default "active" of Status went through the custom
\* converter, and the default "10" of an int field through convertInt
C5_Witness ==
    /\ StructCall
    /\ result.elem = "Misc"
    /\ "Status" \in DOMAIN converters
    /\ DefaultUsed(s_status)
    /\ \E i \in DOMAIN log : log[i].op = "Convert" /\ log[i].typ = "Status"
    /\ pre.fs[3] = IntV("Status", 2)
    /\ dest.fs[3] = IntV("Status", 1)
    /\ err = NoErr

RECURSIVE KnownKeys(_)
\* the keys that a decode into struct type t looks up in the mapping it is given
KnownKeys(t) ==
    LET fs == buildMetadata(tagName, defaultTagName, t).Fields
    IN  UNION { IF fs[j].Embedded
                THEN {fs[j].StructFieldName}
                     \cup (IF Kind(fs[j].Type) = "struct" THEN KnownKeys(fs[j].Type) ELSE {})
                ELSE {fs[j].MapKey} : j \in DOMAIN fs }

\* the destination struct has no embedded field (whose inner fields would be
\* decoded at the same paths as the struct's own)
NoEmbedded == \A g \in DOMAIN TopFields : ~TopFields[g].Embedded

\* C6: a non-embedded field whose key is absent and which has no default
\* keeps its pre-call content, is not looked at and is not what an error is
\* about; decoding the empty mapping into a struct without defaults returns
\* nil and changes nothing; keys that no field uses change nothing.
C6_AbsentKeyLeavesField ==
    StructCall =>
        /\ \A j \in DOMAIN TopFields :
              LET f == TopFields[j]
              IN  (~f.Embedded /\ f.Default = <<>> /\ f.MapKey \notin DOMAIN data.m) =>
                      /\ dest.fs[f.Index + 1] = pre.fs[f.Index + 1]
                      /\ NoEmbedded =>
                            /\ \A i \in DOMAIN log : log[i].path # f.MapKey
                            /\ err.k = "wrapError" => err.prefix # f.MapKey
        /\ (data.m = <<>> /\ \A j \in DOMAIN TopFields :
                                 ~TopFields[j].Embedded /\ TopFields[j].Default = <<>>) =>
              (err = NoErr /\ dest = pre)
        /\ LET known == DOMAIN data.m \cap KnownKeys(result.elem)
               r == UnmarshalerUnmarshal(CallState, AnyMap([k \in known |-> data.m[k]]),
                                         result, pre)
           IN  r.v = dest /\ r.err = err /\ r.st.log = log

\* C6 happens: Port's key is absent, the pointer Port held is still there,
\* and the mapping holds a key (Secret) that no field uses
C6_Witness ==
    /\ StructCall
    /\ result.elem = "Config"
    /\ tagName = "schema"
    /\ s_Port \notin DOMAIN data.m
    /\ s_Secret \in DOMAIN data.m
    /\ s_name \in DOMAIN data.m
    /\ pre.fs[5] = PtrV("*int", <<IntV("int", 4)>>)
    /\ dest.fs[5] = pre.fs[5]
    /\ dest.fs[1] # pre.fs[1]
    /\ err = NoErr

\* the 0-based indices of the fields of struct type t whose key annotation is
\* "-" or parses to the name "-"
SkippedFields(t) ==
    { i \in 0..(NumField(t) - 1) :
        LET v == TagGet(StructFields(t)[i + 1].Tag, tagName)
        IN  v = s_dash \/ (v # s_empty /\ ParseWithName(v).Name = s_dash) }

\* path ends with the characters of suffix
EndsWith(path, suffix) ==
    /\ Len(path) >= Len(suffix)
    /\ SubSeq(path, Len(path) - Len(suffix) + 1, Len(path)) = suffix

\* the struct-typed field at index i of the destination did not receive a
\* whole struct value by direct assignment
NotAssignedWhole(f) ==
    \/ f.Embedded
    \/ f.MapKey \notin DOMAIN data.m
    \/ data.m[f.MapKey].k = "nil"
    \/ ~AssignableTo(TypeOf(data.m[f.MapKey]), f.Type)

\* C7 as the specification states it: with a key-annotation name other than
\* "-", a field annotated "-" is never written by any decode, whatever the
\* source mapping holds under any key.
C7_SkippedFieldNeverWritten ==
    (StructCall /\ tagName # "-") =>
        /\ \A i \in SkippedFields(result.elem) : dest.fs[i + 1] = pre.fs[i + 1]
        /\ \A j \in DOMAIN TopFields :
              LET f == TopFields[j]
              IN  Kind(f.Type) = "struct" =>
                      \A i \in SkippedFields(f.Type) :
                          dest.fs[f.Index + 1].fs[i + 1] = pre.fs[f.Index + 1].fs[i + 1]

\* C7, amended: with a key-annotation name other than "-", a field annotated
\* "-" (or with an annotation that parses to the name "-") has no descriptor
\* in the cached metadata, no step of a decode is taken for it under its
\* declared name or under "-", and the field-by-field decode of its struct
\* leaves it as it was, default annotation or not; it changes only together
\* with its whole struct, when the source holds a value of the struct's own
\* type that is assigned directly.
C7_SkippedFieldNotDecoded ==
    (pc = "returned" /\ tagName # "-") =>
        /\ \A t \in DOMAIN cache : \A j \in DOMAIN cache[t].Fields :
              cache[t].Fields[j].Index \notin SkippedFields(t)
        /\ \A i \in DOMAIN log :
              /\ ~EndsWith(log[i].path, s_dash)
              /\ ~EndsWith(log[i].path, s_Hidden)
              /\ ~EndsWith(log[i].path, s_Secret)
        /\ StructCall =>
              /\ \A i \in SkippedFields(result.elem) : dest.fs[i + 1] = pre.fs[i + 1]
              /\ \A j \in DOMAIN TopFields :
                    LET f == TopFields[j]
                    IN  (Kind(f.Type) = "struct" /\ NotAssignedWhole(f)) =>
                            \A i \in SkippedFields(f.Type) :
                                dest.fs[f.Index + 1].fs[i + 1] = pre.fs[f.Index + 1].fs[i + 1]

\* C7 happens: the mapping holds values under Hidden's declared name and
\* under "-", Value was decoded, Hidden still holds what it held
C7_Witness ==
    /\ StructCall
    /\ tagName = "schema"
    /\ result.elem = "Inner"
    /\ {s_Hidden, s_dash, s_value} \subseteq DOMAIN data.m
    /\ pre.fs[2] = StrV(s_bob)
    /\ dest.fs[2] = StrV(s_bob)
    /\ dest.fs[1] # pre.fs[1]
    /\ err = NoErr

\* C8: when the mapping holds a map[string]any under the declared name of an
\* embedded struct field, the embedded struct is decoded from that nested
\* mapping alone, at the same path: the outer mapping's keys that match its
\* inner fields have no effect on it.
C8_NestedMappingWins ==
    StructCall =>
        \A j \in DOMAIN TopFields :
            LET f == TopFields[j]
            IN  (/\ f.Embedded
                 /\ Kind(f.Type) = "struct"
                 /\ f.StructFieldName \in DOMAIN data.m
                 /\ IsStringAnyMap(data.m[f.StructFieldName])
                 /\ PrefixOk(j)) =>
                    LET r == unmarshalValue(CallState, data.m[f.StructFieldName], f.Type,
                                            pre.fs[f.Index + 1], s_empty)
                    IN  /\ dest.fs[f.Index + 1] = r.v
                        /\ r.err # NoErr => err = r.err

\* C8 happens: Inner is given both as {"Inner": {"value": 1}} and flattened
\* as "value": 2; Inner.Value is 1 while Doc's own Value took the outer key
C8_Witness ==
    /\ StructCall
    /\ tagName = "schema"
    /\ result.elem = "Doc"
    /\ {s_Inner, s_value} \subseteq DOMAIN data.m
    /\ data.m[s_Inner] = AnyMap((s_value :> IntV("int", 1)))
    /\ data.m[s_value] = IntV("int", 2)
    /\ dest.fs[1].fs[1] = IntV("int", 1)
    /\ dest.fs[3] = StrV(<<"2">>)
    /\ err = NoErr

\* the embedded struct field f finds no map[string]any under its declared name
NoNestedMapping(f) ==
    /\ f.Embedded
    /\ Kind(f.Type) = "struct"
    /\ ~(f.StructFieldName \in DOMAIN data.m /\ IsStringAnyMap(data.m[f.StructFieldName]))

\* C9: without a map[string]any under its declared name (key absent, or a
\* value that is no such mapping) an embedded struct is decoded from the
\* whole current mapping at the same path; each inner field is looked up by
\* its own key in the outer mapping, and a key is not consumed: the outer
\* struct's own field and every embedded struct's inner field with that key
\* are all populated from the same value.
C9_PromotedFromWholeMapping ==
    StructCall =>
        \A j \in DOMAIN TopFields :
            LET f == TopFields[j]
            IN  (NoNestedMapping(f) /\ PrefixOk(j)) =>
                    LET r == unmarshalValue(CallState, data, f.Type, pre.fs[f.Index + 1], s_empty)
                        inner == buildMetadata(tagName, defaultTagName, f.Type).Fields
                    IN  /\ dest.fs[f.Index + 1] = r.v
                        /\ r.err # NoErr => err = r.err
                        /\ err = NoErr =>
                              \A g \in DOMAIN inner :
                                  inner[g].MapKey \in DOMAIN data.m =>
                                      /\ dest.fs[f.Index + 1].fs[inner[g].Index + 1] =
                                            unmarshalValue(CallState, data.m[inner[g].MapKey],
                                                inner[g].Type,
                                                pre.fs[f.Index + 1].fs[inner[g].Index + 1],
                                                inner[g].MapKey).v
                                      /\ \A h \in DOMAIN TopFields :
                                            (~TopFields[h].Embedded
                                             /\ TopFields[h].MapKey = inner[g].MapKey) =>
                                                dest.fs[TopFields[h].Index + 1] =
                                                    unmarshalValue(CallState, data.m[inner[g].MapKey],
                                                        TopFields[h].Type,
                                                        pre.fs[TopFields[h].Index + 1],
                                                        inner[g].MapKey).v

\* C9 happens: the one key "value" populated Inner.Value, Meta.Value and
\* Doc's own Value, while a non-mapping value sat under the name Inner
C9_Witness ==
    /\ StructCall
    /\ tagName = "schema"
    /\ result.elem = "Doc"
    /\ s_Meta \notin DOMAIN data.m
    /\ s_Inner \in DOMAIN data.m
    /\ data.m[s_Inner] = StrV(s_x)
    /\ s_value \in DOMAIN data.m
    /\ data.m[s_value] = IntV("int", 2)
    /\ pre.fs[1].fs[1] = IntV("int", 5)
    /\ dest.fs[1].fs[1] = IntV("int", 2)
    /\ dest.fs[2].fs[1] = StrV(<<"2">>)
    /\ dest.fs[3] = StrV(<<"2">>)
    /\ err = NoErr

\* base joined with a field's source key by ".", as the claim words it
JoinKey(base, key) == IF base = <<>> THEN key ELSE base \o <<".">> \o key

\* base with "[i]" appended for the 0-based sequence index i
JoinIndex(base, i) == base \o <<"[">> \o Itoa(i) \o <<"]">>

RECURSIVE SourceNodes(_, _, _)
\* every <<path, value, declared type>> that decoding d into a slot of type
\* typ can arrive at, the path built from the source keys and the indices
\* that lead there ("root" for the destination itself); an embedded struct
\* adds no segment, a pointer's pointee is at the pointer's path
SourceNodes(typ, d, path) ==
    {<<IF path = <<>> THEN s_root ELSE path, d, typ>>}
    \cup
    CASE Kind(typ) = "struct" /\ IsStringAnyMap(d) ->
            LET fs == buildMetadata(tagName, defaultTagName, typ).Fields
            IN  UNION { LET f == fs[j]
                        IN  IF f.Embedded
                            THEN SourceNodes(f.Type,
                                     IF f.StructFieldName \in DOMAIN d.m
                                        /\ IsStringAnyMap(d.m[f.StructFieldName])
                                     THEN d.m[f.StructFieldName] ELSE d,
                                     path)
                            ELSE IF f.MapKey \in DOMAIN d.m
                            THEN SourceNodes(f.Type, d.m[f.MapKey], JoinKey(path, f.MapKey))
                            ELSE IF f.Default # <<>>
                            THEN SourceNodes(f.Type, StrV(f.Default[1]), JoinKey(path, f.MapKey))
                            ELSE {} : j \in DOMAIN fs }
      [] Kind(typ) = "slice" /\ d.k \in {"slice", "array"} ->
            UNION { SourceNodes(Elem(typ), d.xs[i], JoinIndex(path, i - 1)) : i \in DOMAIN d.xs }
      [] Kind(typ) = "ptr" /\ d.k # "nil" -> SourceNodes(Elem(typ), d, path)
      [] OTHER -> {}

\* C10: the ConversionError retrieved from a returned error names the failing
\* slot: FieldPath is the source keys of the fields traversed joined by "."
\* with "[i]" for each sequence index ("root" for the destination itself),
\* Value is the raw value found there and TargetType the type of the slot.
C10_ConversionErrorNamesTheLeaf ==
    ValidCall =>
        \A e \in AsConversionError(err) :
            <<e.FieldPath, e.Value, e.TargetType>> \in SourceNodes(result.elem, data, <<>>)

\* C10 happens: "x" under "value" inside the mapping under "inner" failed to
\* convert to int and the error's path is "inner.value"
C10_Witness ==
    /\ ValidCall
    /\ result.elem = "Nested"
    /\ AsConversionError(err) =
          {[k |-> "ConversionError", FieldPath |-> s_inner \o <<".">> \o s_value,
            Value |-> StrV(s_x), TargetType |-> "int", Cause |-> "invalid syntax"]}

\* msg starts with prefix
StartsWith(msg, prefix) ==
    Len(msg) >= Len(prefix) /\ SubSeq(msg, 1, Len(prefix)) = prefix

\* C11: the message of the error returned for a failing field starts with the
\* field's full path followed by ": cannot convert <value type> to <target
\* type>"; for {"inner": {"value": "x"}} decoded into Nested it starts with
\* "inner.value: cannot convert string to int".
C11_MessageStartsWithFieldPath ==
    StructCall =>
        \A e \in AsConversionError(err) :
            StartsWith(Error(err),
                       e.FieldPath \o <<": cannot convert ", TypeNameOf(e.Value),
                                        " to ", e.TargetType>>)

\* the source holds, under the key of sequence field f, a []any whose
\* elements could all be carried in a sequence of f's own element type
CarriedInAnySlice(f) ==
    /\ ~f.Embedded
    /\ Kind(f.Type) = "slice"
    /\ f.MapKey \in DOMAIN data.m
    /\ data.m[f.MapKey].k = "slice"
    /\ data.m[f.MapKey].t = "[]any"
    /\ \A i \in DOMAIN data.m[f.MapKey].xs :
          LET x == data.m[f.MapKey].xs[i]
          IN  x.k # "nil" /\ AssignableTo(TypeOf(x), Elem(f.Type))

\* C12: for a sequence field of element type E, a []any carrying values of
\* type E decodes to the same sequence as the same values in a sequence of
\* static element type E (which is assigned as it is), whatever E is.
C12_SequencePathsAgree ==
    StructCall =>
        \A j \in DOMAIN TopFields :
            LET f == TopFields[j]
            IN  (CarriedInAnySlice(f) /\ PrefixOk(j)) =>
                    LET typed == SliceV(f.Type, data.m[f.MapKey].xs)
                        r == unmarshalValue(CallState, typed, f.Type,
                                            pre.fs[f.Index + 1], f.MapKey)
                    IN  /\ r.err = NoErr
                        /\ r.v = typed
                        /\ dest.fs[f.Index + 1].xs = r.v.xs
                        /\ ~Panicked

----------------------------------------------------------------------------
(* Concurrent decodes on one shared Unmarshaler.                           *)
(*                                                                         *)
(* A goroutine's decode touches shared memory only in GetMetadata: the     *)
(* registry is read-only after construction and the destination is the     *)
(* goroutine's own.  Its steps are therefore the three of each GetMetadata *)
(* call it makes (Load; on a miss buildMetadata; LoadOrStore), the decode  *)
(* between two calls being local.  The decodes offered look up each struct *)
(* type once.                                                              *)

\* goroutines decoding at the same time
MaxGoroutines == 2

Goroutines == 1..MaxGoroutines

\* the decodes a goroutine may run: destination type, source mapping and the
\* content of its own destination
ConcCalls ==
    { [d |-> AnyMap((s_inner :> AnyMap((s_value :> StrV(s_7))))), t |-> "Nested",
       p |-> Zero("Nested")],
      [d |-> AnyMap((s_inner :> AnyMap((s_value :> StrV(s_x))))), t |-> "Nested",
       p |-> Prefilled("Nested")],
      [d |-> AnyMap((s_value :> IntV("int", 1))), t |-> "Inner", p |-> Zero("Inner")] }

\* a goroutine that has not called Unmarshal yet
IdleGoroutine ==
    [pc |-> "idle", dest |-> NilV, err |-> NoErr, d |-> NilV, t |-> "",
     typ |-> "", p |-> NilV, got |-> <<>>, built |-> [Fields |-> <<>>], builds |-> {}]

\* the decode of goroutine state l carried out with the descriptors that its
\* GetMetadata calls have returned so far
RunWith(l) ==
    UnmarshalerUnmarshal(
        [converters |-> converters, tagName |-> tagName, defaultTagName |-> defaultTagName,
         cache |-> [x \in DOMAIN l.got |-> l.got[x].metadata], log |-> <<>>],
        l.d, PointerTo(l.t), l.p)

\* the GetMetadata calls of that decode whose result the goroutine does not
\* have yet; the first is the call it makes next
Missing(l) ==
    SelectSeq(RunWith(l).st.log, LAMBDA e : e.op = "GetMetadata" /\ e.typ \notin DOMAIN l.got)

InitConc ==
    /\ converters = NewDefaultUnmarshaler.converters
    /\ tagName = NewDefaultUnmarshaler.tagName
    /\ defaultTagName = NewDefaultUnmarshaler.defaultTagName
    /\ cache = <<>>
    /\ calls = 0
    /\ pc = "idle"
    /\ result = NoCall
    /\ data = NilV
    /\ pre = NilV
    /\ dest = NilV
    /\ err = NoErr
    /\ log = <<>>
    /\ gor = [g \in Goroutines |-> IdleGoroutine]
    /\ inst = <<>>

\* goroutine g calls u.Unmarshal(d, &p)
GoUnmarshal(g) ==
    /\ gor[g].pc = "idle"
    /\ \E c \in ConcCalls :
          gor' = [gor EXCEPT ![g] = [IdleGoroutine EXCEPT !.pc = "run", !.t = c.t,
                                                          !.d = c.d, !.p = c.p]]
    /\ UNCHANGED <<converters, tagName, defaultTagName, cache, calls, pc, result, data, pre,
                   dest, err, log, inst>>

\* GetMetadata, c.cache.Load(typ): a hit returns the stored descriptor
GoLoad(g) ==
    /\ gor[g].pc = "run"
    /\ Missing(gor[g]) # <<>>
    /\ LET typ == Missing(gor[g])[1].typ
           r == Load(cache, typ)
       IN  gor' = [gor EXCEPT ![g] =
                      IF r.ok
                      THEN [@ EXCEPT !.got = (typ :> [metadata |-> r.value, by |-> inst[typ]]) @@ @]
                      ELSE [@ EXCEPT !.pc = "build", !.typ = typ]]
    /\ UNCHANGED <<converters, tagName, defaultTagName, cache, calls, pc, result, data, pre,
                   dest, err, log, inst>>

\* GetMetadata, c.buildMetadata(typ): a descriptor of the goroutine's own
GoBuild(g) ==
    /\ gor[g].pc = "build"
    /\ gor' = [gor EXCEPT ![g] =
                  [@ EXCEPT !.pc = "store",
                            !.built = buildMetadata(tagName, defaultTagName, gor[g].typ),
                            !.builds = @ \cup {gor[g].typ}]]
    /\ UNCHANGED <<converters, tagName, defaultTagName, cache, calls, pc, result, data, pre,
                   dest, err, log, inst>>

\* GetMetadata, c.cache.LoadOrStore(typ, metadata) and the return of actual
GoStore(g) ==
    /\ gor[g].pc = "store"
    /\ LET typ == gor[g].typ
           r == LoadOrStore(cache, typ, gor[g].built)
           by == IF r.loaded THEN inst[typ] ELSE g
       IN  /\ cache' = r.cache
           /\ inst' = IF r.loaded THEN inst
                      ELSE (typ :> g) @@ [x \in DOMAIN inst \ {typ} |-> inst[x]]
           /\ gor' = [gor EXCEPT ![g] =
                         [@ EXCEPT !.pc = "run",
                                   !.got = (typ :> [metadata |-> r.actual, by |-> by]) @@ @]]
    /\ UNCHANGED <<converters, tagName, defaultTagName, calls, pc, result, data, pre,
                   dest, err, log>>

\* the decode of goroutine g needs no further descriptor and returns
GoReturn(g) ==
    /\ gor[g].pc = "run"
    /\ Missing(gor[g]) = <<>>
    /\ gor' = [gor EXCEPT ![g] = [@ EXCEPT !.pc = "done", !.dest = RunWith(gor[g]).v,
                                           !.err = RunWith(gor[g]).err]]
    /\ UNCHANGED <<converters, tagName, defaultTagName, cache, calls, pc, result, data, pre,
                   dest, err, log, inst>>

GoUnmarshals == \E g \in Goroutines : GoUnmarshal(g)

GoLoads == \E g \in Goroutines : GoLoad(g)

GoBuilds == \E g \in Goroutines : GoBuild(g)

GoStores == \E g \in Goroutines : GoStore(g)

GoReturns == \E g \in Goroutines : GoReturn(g)

NextConc == GoUnmarshals \/ GoLoads \/ GoBuilds \/ GoStores \/ GoReturns

SpecConc == InitConc /\ [][NextConc]_vars

----------------------------------------------------------------------------
(* Properties of concurrent decodes (SpecConc)                             *)

\* the outcome of goroutine state l's decode run alone on a fresh Unmarshaler
Alone(l) ==
    UnmarshalerUnmarshal(
        [converters |-> converters, tagName |-> tagName, defaultTagName |-> defaultTagName,
         cache |-> <<>>, log |-> <<>>],
        l.d, PointerTo(l.t), l.p)

\* C13: every decode that runs concurrently with others on one Unmarshaler,
\* whatever the interleaving of their descriptor look-ups, builds and stores,
\* ends with the destination contents and the error it yields when run alone.
C13_ConcurrentDecodesAsAlone ==
    \A g \in Goroutines :
        gor[g].pc = "done" =>
            /\ gor[g].dest = Alone(gor[g]).v
            /\ gor[g].err = Alone(gor[g]).err

\* two decodes of the same record type finished, both had built its descriptor
\* because neither found it, one of them decoded with the other's, and one
\* failed where the other succeeded
C13_Witness ==
    /\ \A g \in Goroutines : gor[g].pc = "done" /\ gor[g].t = "Nested"
    /\ \E g, h \in Goroutines :
          /\ g # h
          /\ "Inner" \in gor[g].builds \cap gor[h].builds
          /\ gor[g].got["Inner"].by = h
          /\ gor[g].err # NoErr
          /\ gor[h].err = NoErr
          /\ gor[h].dest.fs[1].fs[1] = IntV("int", 7)

\* C14: of the descriptors concurrent GetMetadata calls build for one type,
\* exactly one is stored; every call returns that stored instance, and the
\* entry is never replaced or removed.
C14_OneDescriptorStored ==
    [][ /\ \A typ \in DOMAIN inst :
              /\ typ \in DOMAIN inst' /\ inst'[typ] = inst[typ]
              /\ typ \in DOMAIN cache' /\ cache'[typ] = cache[typ]
        /\ DOMAIN cache' = DOMAIN inst'
        /\ \A g \in Goroutines : \A typ \in DOMAIN gor'[g].got :
              /\ typ \in DOMAIN inst'
              /\ gor'[g].got[typ].by = inst'[typ]
              /\ gor'[g].got[typ].metadata = cache'[typ] ]_vars

\* two goroutines built a descriptor of the same type and both calls returned
\* the one instance that was stored
C14_Witness ==
    \E g, h \in Goroutines :
        /\ g # h
        /\ "Inner" \in gor[g].builds \cap gor[h].builds
        /\ "Inner" \in DOMAIN gor[g].got \cap DOMAIN gor[h].got
        /\ gor[g].got["Inner"].by = h
        /\ gor[h].got["Inner"].by = h
        /\ inst["Inner"] = h

----------------------------------------------------------------------------
(* Determinism of a decode *)

\* the last call repeated on a new Unmarshaler of the same configuration,
\* which has decoded nothing yet
FreshState ==
    [converters |-> converters, tagName |-> tagName,
     defaultTagName |-> defaultTagName, cache |-> <<>>, log |-> <<>>]

\* C15: decoding one mapping into a zero destination gives the same error
\* outcome and the same destination contents whatever the Unmarshaler has
\* cached and decoded before: the call's outcome is that of the same call on
\* an Unmarshaler that decoded nothing yet, and that of repeating the call.
C15_DecodeIsDeterministic ==
    (ValidCall /\ pre = Zero(result.elem)) =>
        LET fresh == UnmarshalerUnmarshal(FreshState, data, result, pre)
            again == UnmarshalerUnmarshal(CallState, data, result, pre)
        IN  /\ dest = fresh.v /\ err = fresh.err
            /\ dest = again.v /\ err = again.err

\* a second decode into a zero struct filled it, on an Unmarshaler whose
\* cache holds descriptors left by the decode before
C15_Witness ==
    /\ StructCall
    /\ calls = 2
    /\ pre = Zero(result.elem)
    /\ err = NoErr
    /\ dest # pre
    /\ \E typ \in DOMAIN cache :
          \A i \in DOMAIN log : ~(log[i].op = "GetMetadata" /\ log[i].typ = typ)

----------------------------------------------------------------------------
(* Construction of a converter registry and look-ups in it (SpecReg)       *)

\* maps passed to one NewDefaultConverterRegistry call
MaxMaps == 2

\* the target types the custom maps of the tests mention: a built-in one that
\* is overridden, a built-in one, and one without a built-in converter
CustomTypes == {"int", "string", "Status"}

\* the custom converters: conv1 and conv2 of the test
CustomConverters == {"conv1", "conv2"}

\* every map[reflect.Type]Converter over them, the nil map included
ConverterMaps ==
    UNION { [ts -> CustomConverters] : ts \in SUBSET CustomTypes }

\* the types looked up
FindTypes == {"int", "string", "bool", "Status", "[]int"}

InitReg ==
    /\ converters = <<>>
    /\ tagName = DefaultTagName
    /\ defaultTagName = DefaultValueTagName
    /\ cache = <<>>
    /\ calls = 0
    /\ pc = "idle"
    /\ result = NoCall
    /\ data = NilV
    /\ pre = NilV
    /\ dest = NilV
    /\ err = NoErr
    /\ log = <<>>
    /\ gor = <<>>
    /\ inst = <<>>

\* registry := NewDefaultConverterRegistry(additional...)
RegistryNewDefault ==
    /\ pc = "idle"
    /\ \E additional \in SeqsUpTo(ConverterMaps, MaxMaps) :
          /\ converters' = NewDefaultConverterRegistry(additional)
          /\ log' = <<[op |-> "NewDefaultConverterRegistry", maps |-> additional]>>
    /\ pc' = "built"
    /\ UNCHANGED <<tagName, defaultTagName, cache, calls, result, data, pre, dest, err, gor, inst>>

\* registry := NewConverterRegistry(m)
RegistryNew ==
    /\ pc = "idle"
    /\ \E m \in ConverterMaps :
          /\ converters' = NewConverterRegistry(m)
          /\ log' = <<[op |-> "NewConverterRegistry", maps |-> <<m>>]>>
    /\ pc' = "built"
    /\ UNCHANGED <<tagName, defaultTagName, cache, calls, result, data, pre, dest, err, gor, inst>>

\* registry.Find(typ)
RegistryFind ==
    /\ pc \in {"built", "found"}
    /\ \E typ \in FindTypes :
          result' = [ok |-> Find(converters, typ).ok, isNil |-> FALSE, conv |-> Find(converters, typ).conv,
                     kind |-> "find", elem |-> typ]
    /\ pc' = "found"
    /\ UNCHANGED <<converters, tagName, defaultTagName, cache, calls, data, pre, dest, err, log,
                   gor, inst>>

NextReg == RegistryNewDefault \/ RegistryNew \/ RegistryFind

SpecReg == InitReg /\ [][NextReg]_vars

\* the positions of the maps that have an entry for typ
MapsWith(maps, typ) == {i \in DOMAIN maps : typ \in DOMAIN maps[i]}

\* the last of them
LastWith(maps, typ) == CHOOSE i \in MapsWith(maps, typ) : \A j \in MapsWith(maps, typ) : j <= i

\* C16: in a registry made by NewDefaultConverterRegistry(m1, ..., mn), Find
\* returns for a type the converter of the last map that has it, else the
\* built-in converter of the type, else not-found; in a registry made by
\* NewConverterRegistry(m), Find returns m's entry and not-found for a type m
\* lacks, so for every type when m is nil.
C16_RegistryMergesLastWins ==
    pc = "found" =>
        LET maps == log[1].maps
            typ == result.elem
        IN  IF MapsWith(maps, typ) # {}
            THEN result.ok /\ result.conv = maps[LastWith(maps, typ)][typ]
            ELSE IF log[1].op = "NewDefaultConverterRegistry" /\ typ \in DOMAIN BuiltinConverters
            THEN result.ok /\ result.conv = BuiltinConverters[typ]
            ELSE ~result.ok

\* two maps that both convert int were merged, the first also converts a type
\* without a built-in converter, and Find(int) returned the second's converter
C16_Witness ==
    /\ pc = "found"
    /\ log[1].op = "NewDefaultConverterRegistry"
    /\ Len(log[1].maps) = 2
    /\ log[1].maps[1] = ("int" :> "conv1") @@ ("Status" :> "conv1")
    /\ log[1].maps[2] = ("int" :> "conv2")
    /\ result.elem = "int"
    /\ result.conv = "conv2"
    /\ Find(converters, "Status").conv = "conv1"
    /\ Find(converters, "string").conv = "convertString"

----------------------------------------------------------------------------
(* The integer converters of fixed width (SpecNum)                         *)
(*                                                                         *)
(* convertInt8 .. convertInt64 and convertUint8 .. convertUint64 convert   *)
(* to numbers beyond the model checker's integers, so a converted number   *)
(* is kept as its decimal text and the range check compares decimal texts, *)
(* as strconv does digit by digit.                                         *)

IntTypes == {"int8", "int16", "int32", "int64", "uint8", "uint16", "uint32", "uint64"}

Signed(t) == t \in {"int8", "int16", "int32", "int64"}

\* the bit size of the type
Bits(t) ==
    CASE t \in {"int8", "uint8"} -> 8
      [] t \in {"int16", "uint16"} -> 16
      [] t \in {"int32", "uint32"} -> 32
      [] t \in {"int64", "uint64"} -> 64

\* math.MaxInt8 .. math.MaxUint64 in decimal
MaxText(t) ==
    CASE t = "int8" -> <<"1", "2", "7">>
      [] t = "int16" -> <<"3", "2", "7", "6", "7">>
      [] t = "int32" -> <<"2", "1", "4", "7", "4", "8", "3", "6", "4", "7">>
      [] t = "int64" -> <<"9", "2", "2", "3", "3", "7", "2", "0", "3", "6",
                          "8", "5", "4", "7", "7", "5", "8", "0", "7">>
      [] t = "uint8" -> <<"2", "5", "5">>
      [] t = "uint16" -> <<"6", "5", "5", "3", "5">>
      [] t = "uint32" -> <<"4", "2", "9", "4", "9", "6", "7", "2", "9", "5">>
      [] t = "uint64" -> <<"1", "8", "4", "4", "6", "7", "4", "4", "0", "7",
                           "3", "7", "0", "9", "5", "5", "1", "6", "1", "5">>

\* the magnitude of math.MinInt8 .. math.MinInt64 in decimal
MinMagnitudeText(t) ==
    CASE t = "int8" -> <<"1", "2", "8">>
      [] t = "int16" -> <<"3", "2", "7", "6", "8">>
      [] t = "int32" -> <<"2", "1", "4", "7", "4", "8", "3", "6", "4", "8">>
      [] t = "int64" -> <<"9", "2", "2", "3", "3", "7", "2", "0", "3", "6",
                          "8", "5", "4", "7", "7", "5", "8", "0", "8">>

RECURSIVE StripZeros(_)
\* the digits without leading zeros; "0" for zero
StripZeros(ds) ==
    IF Len(ds) > 1 /\ Head(ds) = "0" THEN StripZeros(Tail(ds)) ELSE ds

\* a <= b for two decimal texts without leading zeros
LeqDecimal(a, b) ==
    \/ Len(a) < Len(b)
    \/ /\ Len(a) = Len(b)
       /\ \/ a = b
          \/ \E i \in 1..Len(a) :
                /\ DigitVal(a[i]) < DigitVal(b[i])
                /\ \A j \in 1..(i - 1) : a[j] = b[j]

\* a float64 with one decimal place
FloatV(neg, whole, tenths) ==
    [neg |-> neg, t |-> "float64", k |-> "float", whole |-> whole, tenths |-> tenths]

\* an integer of type t given by its decimal text
WideInt(t, text) == [t |-> t, k |-> "int", text |-> text]

\* a faulty parse: any decimal integer is accepted, whatever the width
ParseWidth_Unchecked(t, s) ==
    LET neg == s # <<>> /\ Head(s) = "-"
        body == IF neg THEN Tail(s) ELSE s
    IN  IF body = <<>> \/ \E i \in 1..Len(body) : ~IsDigit(body[i])
        THEN ConvertFailed("invalid syntax")
        ELSE Converted(WideInt(t, IF neg /\ StripZeros(body) # <<"0">>
                                  THEN <<"-">> \o StripZeros(body) ELSE StripZeros(body)))

\* strconv.ParseInt(s, 10, bits) / strconv.ParseUint(s, 10, bits)
ParseWidth(t, s) ==
    LET neg == s # <<>> /\ Head(s) = "-"
        body == IF neg THEN Tail(s) ELSE s
        mag == StripZeros(body)
    IN  IF body = <<>> \/ \E i \in 1..Len(body) : ~IsDigit(body[i])
        THEN ConvertFailed("invalid syntax")
        ELSE IF neg /\ ~Signed(t) THEN ConvertFailed("invalid syntax")
        ELSE IF neg /\ ~LeqDecimal(mag, MinMagnitudeText(t)) THEN ConvertFailed("value out of range")
        ELSE IF ~neg /\ ~LeqDecimal(mag, MaxText(t)) THEN ConvertFailed("value out of range")
        ELSE Converted(WideInt(t, IF neg /\ mag # <<"0">> THEN <<"-">> \o mag ELSE mag))

\* convertInt8 .. convertUint64 on the inputs the tests give them: integers
\* and floats that fit every width unless they are negative, booleans, strings
convertIntWidth(t, v) ==
    CASE v.k = "int" ->
            IF v.i < 0 /\ ~Signed(t) THEN ConvertFailed("negative value")
            ELSE Converted(WideInt(t, Itoa(v.i)))
      [] v.k = "float" ->
            IF v.neg /\ ~Signed(t) THEN ConvertFailed("negative value")
            ELSE Converted(WideInt(t, IF v.neg /\ v.whole # 0 THEN <<"-">> \o Itoa(v.whole)
                                      ELSE Itoa(v.whole)))
      [] v.k = "bool" -> Converted(WideInt(t, IF v.b THEN <<"1">> ELSE <<"0">>))
      [] v.k = "string" ->
            IF v.s = s_empty THEN Converted(WideInt(t, <<"0">>)) ELSE ParseWidth(t, v.s)
      [] OTHER -> ConvertFailed("unsupported type")

\* digits of the generated decimal strings
MaxDigits == 3

\* the digits they are made of
SomeDigits == {"0", "1", "2", "5", "6", "7", "8"}

\* the texts next to the limits: MaxInt+1, MaxUint+1 and the magnitude of MinInt-1
OverTexts ==
    { <<"1", "2", "8">>, <<"1", "2", "9">>, <<"2", "5", "6">>,
      <<"3", "2", "7", "6", "8">>, <<"3", "2", "7", "6", "9">>, <<"6", "5", "5", "3", "6">>,
      <<"2", "1", "4", "7", "4", "8", "3", "6", "4", "8">>,
      <<"2", "1", "4", "7", "4", "8", "3", "6", "4", "9">>,
      <<"4", "2", "9", "4", "9", "6", "7", "2", "9", "6">>,
      <<"9", "2", "2", "3", "3", "7", "2", "0", "3", "6", "8", "5", "4", "7", "7", "5", "8", "0", "8">>,
      <<"9", "2", "2", "3", "3", "7", "2", "0", "3", "6", "8", "5", "4", "7", "7", "5", "8", "0", "9">>,
      <<"1", "8", "4", "4", "6", "7", "4", "4", "0", "7", "3", "7", "0", "9", "5", "5", "1", "6", "1", "6">> }

\* the magnitudes offered: short ones, the limits and their successors
Magnitudes ==
    (SeqsUpTo(SomeDigits, MaxDigits) \ {<<>>})
        \cup {MaxText(t) : t \in IntTypes} \cup OverTexts

\* the strings offered: decimal integers of either sign, the empty string and
\* strings that are no numbers ("-0", which no test gives an unsigned
\* converter, is not among them)
NumericStrings ==
    Magnitudes \cup {<<"-">> \o m : m \in {n \in Magnitudes : StripZeros(n) # <<"0">>}}
        \cup {s_empty, s_x, <<"1", "x">>, <<"-">>, <<"1", ".", "5">>}

\* the native inputs the tests give convert<T>: numbers that fit every width,
\* and negative ones
NativeInputs(t) ==
    { IntV("int", 127), IntV("int", 100), IntV("int", 0), IntV("int", -1), IntV("int", -128),
      FloatV(FALSE, 50, 9), FloatV(FALSE, 100, 9), FloatV(TRUE, 1, 5), FloatV(TRUE, 42, 9),
      BoolV(TRUE), BoolV(FALSE) }

\* the inputs the tests give convert<T>
NumericInputs(t) == {StrV(s) : s \in NumericStrings} \cup NativeInputs(t)

\* a converter of an integer type t is about to be called with a value v
InitNum ==
    /\ converters = <<>>
    /\ tagName = DefaultTagName
    /\ defaultTagName = DefaultValueTagName
    /\ cache = <<>>
    /\ calls = 0
    /\ pc = "idle"
    /\ \E t \in IntTypes :
          /\ result = [isNil |-> FALSE, kind |-> "convert", elem |-> t]
          /\ data \in NumericInputs(t)
    /\ pre = NilV
    /\ dest = NilV
    /\ err = NoErr
    /\ log = <<>>
    /\ gor = <<>>
    /\ inst = <<>>

\* convert<T>(v) for the integer type t
ConvertTo(t, v) ==
    /\ pc = "idle"
    /\ dest' = convertIntWidth(t, v).v
    /\ err' = IF convertIntWidth(t, v).err = "" THEN NoErr
              ELSE [typ |-> t, k |-> "errorString", path |-> <<>>, text |-> convertIntWidth(t, v).err]
    /\ pc' = "converted"
    /\ UNCHANGED <<converters, tagName, defaultTagName, cache, calls, result, data, pre, log,
                   gor, inst>>

\* the converter is given a string
ConvertString == data.k = "string" /\ ConvertTo(result.elem, data)

\* the converter is given an integer, a float or a boolean
ConvertNative == data.k # "string" /\ ConvertTo(result.elem, data)

NextNum == ConvertString \/ ConvertNative

SpecNum == InitNum /\ [][NextNum]_vars

\* s is an optional minus sign followed by one or more digits
IsDecimal(s) ==
    LET body == IF s # <<>> /\ Head(s) = "-" THEN Tail(s) ELSE s
    IN  body # <<>> /\ \A i \in 1..Len(body) : IsDigit(body[i])

\* a conversion has been made
Converting == pc = "converted"

\* the input is a decimal integer short enough to be computed with
ShortDecimal ==
    /\ data.k = "string"
    /\ Len(data.s) <= MaxDigits + 1
    /\ IsDecimal(data.s)

\* n is representable in the type t; a short decimal is below 2^31
Representable(t, n) ==
    IF Signed(t)
    THEN Bits(t) > 16 \/ (-(2 ^ (Bits(t) - 1)) <= n /\ n <= 2 ^ (Bits(t) - 1) - 1)
    ELSE n >= 0 /\ (Bits(t) > 16 \/ n <= 2 ^ Bits(t) - 1)

\* the decimal text of the type's largest number plus one
AboveMax(t) ==
    CASE t = "int8" -> <<"1", "2", "8">>
      [] t = "int16" -> <<"3", "2", "7", "6", "8">>
      [] t = "int32" -> <<"2", "1", "4", "7", "4", "8", "3", "6", "4", "8">>
      [] t = "int64" -> <<"9", "2", "2", "3", "3", "7", "2", "0", "3", "6",
                          "8", "5", "4", "7", "7", "5", "8", "0", "8">>
      [] t = "uint8" -> <<"2", "5", "6">>
      [] t = "uint16" -> <<"6", "5", "5", "3", "6">>
      [] t = "uint32" -> <<"4", "2", "9", "4", "9", "6", "7", "2", "9", "6">>
      [] t = "uint64" -> <<"1", "8", "4", "4", "6", "7", "4", "4", "0", "7",
                           "3", "7", "0", "9", "5", "5", "1", "6", "1", "6">>

\* the magnitude of the signed type's smallest number minus one
BelowMinMagnitude(t) ==
    CASE t = "int8" -> <<"1", "2", "9">>
      [] t = "int16" -> <<"3", "2", "7", "6", "9">>
      [] t = "int32" -> <<"2", "1", "4", "7", "4", "8", "3", "6", "4", "9">>
      [] t = "int64" -> <<"9", "2", "2", "3", "3", "7", "2", "0", "3", "6",
                          "8", "5", "4", "7", "7", "5", "8", "0", "9">>

\* C17: for every integer width, a decimal string converts iff its number is
\* in the range of the target, and then to that number: the largest and the
\* smallest number of the type convert, their neighbours outside do not; a
\* negative integer, float or decimal string does not convert to an unsigned
\* type; the empty string converts to 0; a string that is no number fails.
C17_IntegerWidthsRespectRange ==
    Converting =>
        LET t == result.elem
            neg == data.k = "string" /\ data.s # <<>> /\ Head(data.s) = "-"
            mag == IF neg THEN Tail(data.s) ELSE data.s
        IN  /\ ShortDecimal =>
                IF Representable(t, Atoi(data.s).n)
                THEN err = NoErr /\ dest = WideInt(t, Itoa(Atoi(data.s).n))
                ELSE err # NoErr
            /\ (data.k = "string" /\ data.s = MaxText(t)) => (err = NoErr /\ dest = WideInt(t, data.s))
            /\ (data.k = "string" /\ Signed(t) /\ neg /\ mag = MinMagnitudeText(t)) =>
                   (err = NoErr /\ dest = WideInt(t, data.s))
            /\ (data.k = "string" /\ data.s = AboveMax(t)) => err # NoErr
            /\ (data.k = "string" /\ Signed(t) /\ neg /\ mag = BelowMinMagnitude(t)) => err # NoErr
            /\ (data.k = "string" /\ mag \in OverTexts \cup {MaxText(u) : u \in IntTypes}
                    /\ Len(mag) > Len(MaxText(t))) => err # NoErr
            /\ (~Signed(t) /\ neg) => err # NoErr
            /\ (~Signed(t) /\ data.k = "int" /\ data.i < 0) => err # NoErr
            /\ (~Signed(t) /\ data.k = "float" /\ data.neg) => err # NoErr
            /\ (data.k = "string" /\ data.s = s_empty) => (err = NoErr /\ dest = WideInt(t, <<"0">>))
            /\ (data.k = "string" /\ data.s # s_empty /\ ~IsDecimal(data.s)) => err # NoErr

\* "256" was refused for uint8
C17_Witness ==
    /\ Converting
    /\ result.elem = "uint8"
    /\ data = StrV(<<"2", "5", "6">>)
    /\ err # NoErr

----------------------------------------------------------------------------
(* Pointer fields *)

\* the field is a pointer that no converter is registered for
PlainPointer(f) == ~f.Embedded /\ Kind(f.Type) = "ptr" /\ ~Find(converters, f.Type).ok

\* C18: for a pointer field without a converter for the pointer type: a nil
\* value makes the field the nil pointer; a non-nil value that cannot be
\* assigned to it is decoded into the pointee under the field's own path,
\* into the pointee the field already has or, for a nil field, into a new
\* zero one; and a field whose key is absent and that has no default is left
\* as it was, so nil when it was nil.
C18_PointerFieldDecodesPointee ==
    StructCall =>
        \A j \in DOMAIN TopFields :
            LET f == TopFields[j]
                was == pre.fs[f.Index + 1]
                now == dest.fs[f.Index + 1]
            IN  (PlainPointer(f) /\ PrefixOk(j)) =>
                    IF f.MapKey \notin DOMAIN data.m
                    THEN f.Default = <<>> => now = was
                    ELSE IF data.m[f.MapKey].k = "nil"
                    THEN now = PtrV(f.Type, <<>>)
                    ELSE IF AssignableTo(TypeOf(data.m[f.MapKey]), f.Type)
                    THEN now = data.m[f.MapKey]
                    ELSE LET pointee == IF was.p = <<>> THEN Zero(Elem(f.Type)) ELSE was.p[1]
                             r == unmarshalValue(CallState, data.m[f.MapKey], Elem(f.Type),
                                                 pointee, f.MapKey)
                         IN  /\ now = PtrV(f.Type, <<r.v>>)
                             /\ r.err # NoErr =>
                                   /\ err # NoErr
                                   /\ \A e \in AsConversionError(err) : e.FieldPath = f.MapKey
                             /\ (r.err = NoErr /\ j = Len(TopFields)) => err = NoErr

\* Port pointed to 4, the value "x" for it did not convert, and Port still
\* points to 4
C18_Witness ==
    /\ StructCall
    /\ result.elem = "Config"
    /\ s_Port \in DOMAIN data.m
    /\ data.m[s_Port] = StrV(s_x)
    /\ pre.fs[5] = PtrV("*int", <<IntV("int", 4)>>)
    /\ dest.fs[5] = PtrV("*int", <<IntV("int", 4)>>)
    /\ dest.fs[1] # pre.fs[1]
    /\ AsConversionError(err) # {}

\* a Port that pointed to 4 was given the nil value and is the nil pointer
C18_WitnessNil ==
    /\ StructCall
    /\ result.elem = "Config"
    /\ s_Port \in DOMAIN data.m
    /\ data.m[s_Port] = NilV
    /\ pre.fs[5] = PtrV("*int", <<IntV("int", 4)>>)
    /\ dest.fs[5] = PtrV("*int", <<>>)
    /\ err = NoErr

----------------------------------------------------------------------------
(* Mapping by declared field names *)

\* the 0-based indices of the exported fields of struct type typ
ExportedFields(typ) == {i \in 0..(NumField(typ) - 1) : StructFields(typ)[i + 1].Exported}

\* C19: in a cache built with the tag name "-" the descriptors of a struct
\* type are those of all its exported fields, in declaration order, each with
\* its declared name as the source key, whatever the field is annotated with:
\* a field annotated schema:"-" is decoded from the key that is its declared
\* name.  A cache built with empty tag names uses "schema" and "default".
C19_DashMapsByDeclaredName ==
    /\ NewStructMetadataCache("", "") = [tagName |-> "schema", defaultTagName |-> "default"]
    /\ tagName # "" /\ defaultTagName # ""
    /\ tagName = "-" =>
          /\ \A typ \in DOMAIN cache :
                LET fs == cache[typ].Fields
                IN  /\ Len(fs) = Cardinality(ExportedFields(typ))
                    /\ \A k \in DOMAIN fs :
                          /\ fs[k].Index \in ExportedFields(typ)
                          /\ fs[k].StructFieldName = StructFields(typ)[fs[k].Index + 1].Name
                          /\ fs[k].MapKey = fs[k].StructFieldName
                          /\ \A h \in 1..(k - 1) : fs[h].Index < fs[k].Index
          /\ StructCall =>
                \A i \in ExportedFields(result.elem) :
                    LET f == StructFields(result.elem)[i + 1]
                    IN  (~f.Anonymous /\ f.Name \in DOMAIN data.m /\ err = NoErr) =>
                            dest.fs[i + 1] =
                                unmarshalValue(CallState, data.m[f.Name], f.Type,
                                               pre.fs[i + 1], f.Name).v

\* with the tag name "-", Secret (annotated schema:"-") was decoded from the
\* key "Secret", and Name (annotated schema:"name") was not decoded from the
\* key "name" that the mapping holds
C19_Witness ==
    /\ StructCall
    /\ tagName = "-"
    /\ result.elem = "Config"
    /\ s_Secret \in DOMAIN data.m
    /\ s_name \in DOMAIN data.m
    /\ pre.fs[3] = StrV(s_bob)
    /\ dest.fs[3] = data.m[s_Secret]
    /\ dest.fs[1] = StrV(s_anon)
    /\ Len(cache["Config"].Fields) = 4
    /\ err = NoErr

----------------------------------------------------------------------------
(* Direct assignment *)

\* path is the path of the field with that key or of something inside it
AtOrBelow(path, key) ==
    \/ path = key
    \/ StartsWith(path, key \o <<".">>)
    \/ StartsWith(path, key \o <<"[">>)

\* C20: a non-nil value whose type is assignable to the type of the field it
\* is given to is stored in the field as it is, and that is all that happens
\* for the field: no converter is looked up or called, although one may be
\* registered for the field's type, no descriptor is fetched and no default
\* is used for a record value, and nothing inside the value is decoded.
C20_AssignableValueStoredAsIs ==
    StructCall =>
        \A j \in DOMAIN TopFields :
            LET f == TopFields[j]
            IN  (/\ ~f.Embedded
                 /\ f.MapKey \in DOMAIN data.m
                 /\ data.m[f.MapKey].k # "nil"
                 /\ AssignableTo(TypeOf(data.m[f.MapKey]), f.Type)
                 /\ PrefixOk(j)) =>
                    /\ dest.fs[f.Index + 1] = data.m[f.MapKey]
                    /\ NoEmbedded =>
                          /\ SelectSeq(log, LAMBDA e : AtOrBelow(e.path, f.MapKey)) =
                                 <<[typ |-> f.Type, path |-> f.MapKey, op |-> "Set"]>>
                          /\ err.k = "wrapError" => err.prefix # f.MapKey

\* an already constructed Config was stored in Outer's field as it is, and
\* the descriptor of Config was never fetched
C20_Witness ==
    /\ StructCall
    /\ result.elem = "Outer"
    /\ CfgKey \in DOMAIN data.m
    /\ data.m[CfgKey].k = "struct"
    /\ dest.fs[1] = data.m[CfgKey]
    /\ dest.fs[1] # pre.fs[1]
    /\ "Config" \notin DOMAIN cache
    /\ Find(converters, "int").ok
    /\ err = NoErr

----------------------------------------------------------------------------
(* Converter precedence *)

\* C21: for a field whose type has a registered converter and whose value is
\* nil or not assignable to it, the converter alone decides: when it returns
\* no error the field holds what it returned; when it returns an error the
\* call fails with a ConversionError of the field's path, the value, the
\* field's type and that error as cause, the field is not written, and
\* nothing but the look-up and the converter call happens for the field.
C21_ConverterAloneDecides ==
    StructCall =>
        \A j \in DOMAIN TopFields :
            LET f == TopFields[j]
            IN  (/\ ~f.Embedded
                 /\ f.MapKey \in DOMAIN data.m
                 /\ Find(converters, f.Type).ok
                 /\ (data.m[f.MapKey].k = "nil" \/ ~AssignableTo(TypeOf(data.m[f.MapKey]), f.Type))
                 /\ PrefixOk(j)) =>
                    LET v == data.m[f.MapKey]
                        c == Convert(Find(converters, f.Type).conv, v)
                    IN  IF c.err # ""
                        THEN /\ AsConversionError(err) = {NewConversionError(f.MapKey, v, f.Type, c.err)}
                             /\ dest.fs[f.Index + 1] = pre.fs[f.Index + 1]
                             /\ NoEmbedded =>
                                   \A i \in DOMAIN log :
                                       AtOrBelow(log[i].path, f.MapKey) =>
                                           log[i].op \in {"Find", "Convert"}
                        ELSE dest.fs[f.Index + 1] = c.v


----------------------------------------------------------------------------
(* Shapes of source values: calls that offer every shape of value to record,
   sequence, pointer and embedded slots *)

\* the destination types of these calls
ShapeTypes == {"Nested", "Config", "Wrap", "Node", "Bag"}

\* for destination type t: the keys a source mapping may hold and, per key,
\* the values offered under it
ShapeKeyValues(t) ==
    CASE t = "Nested" ->
            << <<s_inner, {AnyMap((s_value :> IntV("int", 1))),
                           MapV("map[string]string", (s_value :> StrV(s_7))),
                           MapV("Params", (s_value :> IntV("int", 1))),
                           NilV, StrV(s_x)}>>,
               <<s_items, {SliceV("[]int", <<>>), NilSlice("[]int"), NilSlice("[]string"),
                           SliceV("[]any", <<>>), ArrayV("[0]int", <<>>), NilV, StrV(s_x),
                           SliceV("[]any", <<IntV("int", 1), StrV(s_x)>>),
                           SliceV("[]any", <<StrV(s_x), BoolV(TRUE)>>),
                           SliceV("[]any", <<StrV(s_7), IntV("int", 1)>>)}>> >>
      [] t = "Wrap" ->
            << <<s_Inner, {AnyMap((s_value :> IntV("int", 1))), StrV(s_x)}>>,
               <<s_Status, {AnyMap((s_value :> IntV("int", 1)))}>>,
               <<s_Meta, {AnyMap((s_value :> StrV(s_7)))}>>,
               <<s_value, {StrV(s_x)}>>,
               <<s_name, {StrV(s_x)}>> >>
      [] t = "Node" ->
            << <<s_value, {IntV("int", 1), StrV(s_x)}>>,
               <<s_next, {AnyMap((s_value :> IntV("int", 1))), AnyMap((s_value :> StrV(s_x))),
                          AnyMap((s_next :> AnyMap((s_value :> IntV("int", 1))))), NilV}>>,
               <<s_kids, {SliceV("[]any", <<AnyMap((s_value :> IntV("int", 1)))>>),
                          SliceV("[]any", <<AnyMap((s_value :> IntV("int", 1))),
                                            AnyMap((s_value :> StrV(s_x)))>>),
                          SliceV("[]any", <<AnyMap((s_kids :>
                                      SliceV("[]any", <<AnyMap((s_value :> IntV("int", 1)))>>)))>>)}>> >>
      [] t = "Bag" ->
            << <<s_any, {SliceV("[]int", <<IntV("int", 1), IntV("int", 2)>>),
                         SliceV("[]any", <<IntV("int", 1)>>)}>>,
               <<s_readers, {SliceV("[]any", <<ReaderV>>), SliceV("[]*strings.Reader", <<ReaderV>>)}>> >>
      [] OTHER -> KeyValues(t)

\* the source mappings offered for destination type t
ShapeMaps(t) == {AnyMap(m) : m \in MapsOver(ShapeKeyValues(t), Len(ShapeKeyValues(t)))}

\* a call with a pointer to a fresh or an already filled destination of type t
UnmarshalShape ==
    \E t \in ShapeTypes : \E d \in ShapeMaps(t) : \E p \in {Zero(t), Prefilled(t)} :
        Unmarshal(PointerTo(t), d, p)

NextShape == UnmarshalShape \/ Return

SpecShape == Init /\ [][NextShape]_vars


----------------------------------------------------------------------------
(* Record slots *)

\* field j of the destination is a plain struct-typed field without converter
\* whose key is present with a value that is not stored as it is, and every
\* field before it was decoded
StructSlot(j) ==
    LET f == TopFields[j]
    IN  /\ ~f.Embedded
        /\ Kind(f.Type) = "struct"
        /\ ~Find(converters, f.Type).ok
        /\ f.MapKey \in DOMAIN data.m
        /\ (data.m[f.MapKey].k = "nil" \/ ~AssignableTo(TypeOf(data.m[f.MapKey]), f.Type))
        /\ PrefixOk(j)

\* field j was decoded from the entries of the mapping m
DecodedFrom(j, m) ==
    LET f == TopFields[j]
        r == unmarshalStruct(CallState, m, f.Type, pre.fs[f.Index + 1], f.MapKey)
    IN  /\ dest.fs[f.Index + 1] = r.v
        /\ (r.err = NoErr \/ err = WrapError(f.MapKey, r.err))
        /\ (r.err # NoErr \/ err.k # "wrapError" \/ err.prefix # f.MapKey)

\* field j was refused with a ConversionError without cause at its path and
\* was not written
RefusedWhole(j) ==
    LET f == TopFields[j]
    IN  /\ err = WrapError(f.MapKey, NewConversionError(f.MapKey, data.m[f.MapKey], f.Type, ""))
        /\ dest.fs[f.Index + 1] = pre.fs[f.Index + 1]

\* C22 (as stated): for a record slot without converter every string-keyed
\* mapping, whatever its value type (map[string]any, map[string]string, a
\* named map type), is accepted and its entries are used; every other value,
\* nil included, fails with a cause-less ConversionError at the current path
\* and no field is written.
C22_EveryStringKeyedMappingAccepted ==
    StructCall =>
        \A j \in DOMAIN TopFields :
            StructSlot(j) =>
                LET v == data.m[TopFields[j].MapKey]
                IN  IF v.k = "map" THEN DecodedFrom(j, AnyMap(v.m)) ELSE RefusedWhole(j)

\* C22 (amended): a record slot without converter accepts a value exactly
\* when its dynamic type is map[string]any, and then decodes its fields from
\* that mapping's entries; every other value (nil, a string, a
\* map[string]string, a named map type) fails with a cause-less
\* ConversionError at the current path and the slot is not written.
C22_OnlyStringAnyMapAccepted ==
    StructCall =>
        \A j \in DOMAIN TopFields :
            StructSlot(j) =>
                LET v == data.m[TopFields[j].MapKey]
                IN  IF IsStringAnyMap(v) THEN DecodedFrom(j, v) ELSE RefusedWhole(j)

\* a map[string]string offered to a record slot was refused
C22_Witness ==
    /\ StructCall
    /\ \E j \in DOMAIN TopFields :
          /\ StructSlot(j)
          /\ data.m[TopFields[j].MapKey].k = "map"
          /\ TypeOf(data.m[TopFields[j].MapKey]) = "map[string]string"
          /\ RefusedWhole(j)
          /\ pre.fs[TopFields[j].Index + 1] # Zero(TopFields[j].Type)


----------------------------------------------------------------------------
(* Embedded fields of any type *)

\* the source holds a map[string]any under the declared name of field j
NestedMapping(j) ==
    /\ TopFields[j].StructFieldName \in DOMAIN data.m
    /\ IsStringAnyMap(data.m[TopFields[j].StructFieldName])

\* field j holds what decoding the value v into it gives, and the call's
\* error is that decode's error
EmbeddedDecodedFrom(j, v) ==
    LET f == TopFields[j]
        r == unmarshalValue(CallState, v, f.Type, pre.fs[f.Index + 1], s_empty)
    IN  /\ dest.fs[f.Index + 1] = r.v
        /\ (r.err = NoErr \/ err = r.err)
        /\ (r.err = NoErr) = PrefixOk(j + 1)

\* field j holds what it held before the call and no error came from it
EmbeddedUntouched(j) ==
    /\ dest.fs[TopFields[j].Index + 1] = pre.fs[TopFields[j].Index + 1]
    /\ PrefixOk(j + 1)

\* C23 (as stated): for every embedded field, whatever its declared type
\* (record, pointer to record, or other), a string-keyed mapping held under
\* the field's declared name is what the field is decoded from; an embedded
\* field that is not a record is left untouched without error only when the
\* source holds no such nested mapping.
C23_NestedMappingForEveryEmbedded ==
    StructCall =>
        \A j \in DOMAIN TopFields :
            (TopFields[j].Embedded /\ PrefixOk(j)) =>
                IF NestedMapping(j)
                THEN EmbeddedDecodedFrom(j, data.m[TopFields[j].StructFieldName])
                ELSE Kind(TopFields[j].Type) # "struct" => EmbeddedUntouched(j)

\* C23 (amended): an embedded field whose declared type is a record is
\* decoded from the map[string]any held under its declared name when there is
\* one, and from the whole current mapping otherwise; an embedded field of any
\* other type (a pointer to a record, a named integer) is left untouched
\* without error whether or not the source holds a mapping under its declared
\* name.
C23_OnlyRecordEmbeddedDecoded ==
    StructCall =>
        \A j \in DOMAIN TopFields :
            (TopFields[j].Embedded /\ PrefixOk(j)) =>
                IF Kind(TopFields[j].Type) # "struct" THEN EmbeddedUntouched(j)
                ELSE IF NestedMapping(j)
                THEN EmbeddedDecodedFrom(j, data.m[TopFields[j].StructFieldName])
                ELSE EmbeddedDecodedFrom(j, data)

\* an embedded pointer to a record kept its pointee although the source held
\* a mapping under its declared name, and an embedded record next to it was
\* decoded from its nested mapping
C23_Witness ==
    /\ StructCall
    /\ err = NoErr
    /\ \E j \in DOMAIN TopFields :
          /\ TopFields[j].Embedded
          /\ Kind(TopFields[j].Type) = "ptr"
          /\ NestedMapping(j)
          /\ pre.fs[TopFields[j].Index + 1].p # <<>>
          /\ dest.fs[TopFields[j].Index + 1] = pre.fs[TopFields[j].Index + 1]
    /\ \E j \in DOMAIN TopFields :
          /\ TopFields[j].Embedded
          /\ Kind(TopFields[j].Type) = "struct"
          /\ NestedMapping(j)
          /\ dest.fs[TopFields[j].Index + 1] # pre.fs[TopFields[j].Index + 1]


----------------------------------------------------------------------------
(* Sequence slots and sources of length zero *)

\* field j of the destination is a plain slice-typed field without converter
\* whose key is present, and every field before it was decoded
SliceSlot(j) ==
    LET f == TopFields[j]
    IN  /\ ~f.Embedded
        /\ Kind(f.Type) = "slice"
        /\ ~Find(converters, f.Type).ok
        /\ f.MapKey \in DOMAIN data.m
        /\ PrefixOk(j)

\* a slice or an array without elements (a typed nil slice included)
EmptySequence(v) == v.k \in {"slice", "array"} /\ Len(v.xs) = 0

\* C24 (as stated): every non-nil sequence-shaped source of length 0 (an
\* empty slice, a typed nil slice of the same or of another element type, a
\* zero-length array) leaves the destination sequence empty and non-nil; only
\* the nil value gives the nil sequence; a value that is no sequence fails
\* with a cause-less ConversionError.
C24_EmptySourceGivesEmptyNonNil ==
    StructCall =>
        \A j \in DOMAIN TopFields :
            SliceSlot(j) =>
                LET f == TopFields[j]
                    v == data.m[f.MapKey]
                IN  /\ EmptySequence(v) => dest.fs[f.Index + 1] = SliceV(f.Type, <<>>)
                    /\ v.k = "nil" => dest.fs[f.Index + 1] = NilSlice(f.Type)
                    /\ v.k \notin {"nil", "slice", "array"} => RefusedWhole(j)
                    /\ (PrefixOk(j + 1) /\ dest.fs[f.Index + 1].isNil) => v.k = "nil"

\* C24 (amended): a source of length 0 that is not assignable to the slot's
\* type (an empty or nil slice of another element type, a zero-length array)
\* leaves the destination sequence empty and non-nil; a source of the slot's
\* own type is stored as it is, so that the typed nil slice of that type
\* gives the nil sequence just as the nil value does; a value that is no
\* sequence fails with a cause-less ConversionError.
C24_EmptySourceUnlessAssignable ==
    StructCall =>
        \A j \in DOMAIN TopFields :
            SliceSlot(j) =>
                LET f == TopFields[j]
                    v == data.m[f.MapKey]
                IN  /\ (EmptySequence(v) /\ ~AssignableTo(TypeOf(v), f.Type)) =>
                            dest.fs[f.Index + 1] = SliceV(f.Type, <<>>)
                    /\ (EmptySequence(v) /\ AssignableTo(TypeOf(v), f.Type)) =>
                            dest.fs[f.Index + 1] = v
                    /\ v.k = "nil" => dest.fs[f.Index + 1] = NilSlice(f.Type)
                    /\ v.k \notin {"nil", "slice", "array"} => RefusedWhole(j)
                    /\ (PrefixOk(j + 1) /\ dest.fs[f.Index + 1].isNil) =>
                            (v.k = "nil" \/ v = NilSlice(f.Type))

\* the typed nil slice of the slot's own type replaced a non-empty sequence
\* by the nil sequence
C24_Witness ==
    /\ StructCall
    /\ err = NoErr
    /\ \E j \in DOMAIN TopFields :
          /\ SliceSlot(j)
          /\ data.m[TopFields[j].MapKey] = NilSlice(TopFields[j].Type)
          /\ pre.fs[TopFields[j].Index + 1].xs # <<>>
          /\ dest.fs[TopFields[j].Index + 1] = NilSlice(TopFields[j].Type)

\* a typed nil slice of another element type and a zero-length array gave the
\* empty non-nil sequence
C24_WitnessOther ==
    /\ StructCall
    /\ err = NoErr
    /\ \E j \in DOMAIN TopFields :
          /\ SliceSlot(j)
          /\ data.m[TopFields[j].MapKey] \in {NilSlice("[]string"), ArrayV("[0]int", <<>>)}
          /\ dest.fs[TopFields[j].Index + 1] = SliceV(TopFields[j].Type, <<>>)


----------------------------------------------------------------------------
(* Sequence slots whose element type differs from the source's *)

\* the value under the key of field j is a non-empty sequence that is not
\* assignable to the slot and whose element type is not the slot's
OtherElements(j) ==
    LET f == TopFields[j]
        v == data.m[f.MapKey]
    IN  /\ SliceSlot(j)
        /\ v.k \in {"slice", "array"}
        /\ Len(v.xs) > 0
        /\ ~AssignableTo(TypeOf(v), f.Type)
        /\ Elem(TypeOf(v)) # Elem(f.Type)

\* every element of the value under the key of field j was resolved on its
\* own, under the path of its index, and the field holds the outcome
ResolvedOneByOne(j) ==
    LET f == TopFields[j]
        v == data.m[f.MapKey]
        scratch == SliceV(f.Type, [i \in 1..Len(v.xs) |-> Zero(Elem(f.Type))])
        r == convertElements(CallState, v, f.Type, scratch, f.MapKey, 0)
    IN  /\ r.err = NoErr => dest.fs[f.Index + 1] = r.v
        /\ r.err # NoErr => err = WrapError(f.MapKey, r.err)
        /\ \E n \in DOMAIN log : log[n].path = elemPathOf(f.MapKey, 0)

\* C25: for a non-empty source that is not assignable and whose element type
\* differs from the destination's, the elements are copied without
\* conversion exactly when the destination's element type is any, and then
\* dest[i] = source[i]; for every other element type, io.Reader included,
\* each element is resolved on its own under the path path[i].
C25_CopyOnlyIntoAny ==
    StructCall =>
        \A j \in DOMAIN TopFields :
            OtherElements(j) =>
                IF Elem(TopFields[j].Type) = "any"
                THEN /\ dest.fs[TopFields[j].Index + 1] =
                            SliceV(TopFields[j].Type, data.m[TopFields[j].MapKey].xs)
                     /\ \A n \in DOMAIN log : log[n].path # elemPathOf(TopFields[j].MapKey, 0)
                ELSE ResolvedOneByOne(j)


----------------------------------------------------------------------------
(* Order of decoding and the first failure *)

\* field k is the first field of the destination whose decoding failed
FirstFailing(k) == PrefixOk(k) /\ ~PrefixOk(k + 1)

\* nothing was read, converted or written at or below the path
NothingAt(path) == \A n \in DOMAIN log : ~AtOrBelow(log[n].path, path)

\* the fields that are decoded under a path of their own
Plain == {j \in DOMAIN TopFields : ~TopFields[j].Embedded}

\* the indexes a source sequence of the model can have
ElemIndexes == 0..(MaxElems - 1)

\* for every step of the call, the plain fields of the descriptors T at or
\* below whose path it was made
FieldsOf(T) ==
    [n \in DOMAIN log |->
        {a \in DOMAIN T : ~T[a].Embedded /\ AtOrBelow(log[n].path, T[a].MapKey)}]

\* for every step of the call and every field it belongs to, the indexes of
\* the elements of the field's sequence at or below whose path it was made
ElemsOf(T, F) ==
    [n \in DOMAIN log |->
        [a \in F[n] |-> {i \in ElemIndexes : AtOrBelow(log[n].path, elemPathOf(T[a].MapKey, i))}]]

\* the steps of the call were made field after field in the order of the
\* descriptors T and, within a sequence, element after element
InOrder(T) ==
    \E F \in {FieldsOf(T)} :
        \E E \in {ElemsOf(T, F)} :
            \A n, m \in DOMAIN log :
                (n < m) =>
                    (/\ \A a \in F[n] : \A b \in F[m] : a <= b
                     /\ \A a \in F[n] \cap F[m] : \A i \in E[n][a] : \A i2 \in E[m][a] : i <= i2)

\* the call stopped at field k of the descriptors T: its error is the one of
\* that field and no later field was read, converted or written
StoppedAtField(T, k) ==
    /\ FirstFailing(k)
    /\ err = unmarshalField(CallState, data, pre.fs[T[k].Index + 1], T[k], s_empty).err
    /\ \A j \in DOMAIN T :
          (j > k /\ ~T[j].Embedded) =>
              (/\ dest.fs[T[j].Index + 1] = pre.fs[T[j].Index + 1]
               /\ NothingAt(T[j].MapKey))

\* if the error of the call is a ConversionError at or below element i of the
\* sequence under key, the elements before i were resolved without error and
\* none after i was read, converted or written
StoppedAtElement(key, typ, i) ==
    (\E e \in AsConversionError(err) : AtOrBelow(e.FieldPath, elemPathOf(key, i))) =>
        (/\ \A i2 \in ElemIndexes : (i2 > i) => NothingAt(elemPathOf(key, i2))
         /\ \A i2 \in ElemIndexes :
               (i2 < i) =>
                   unmarshalValue(CallState, data.m[key].xs[i2 + 1], Elem(typ), Zero(Elem(typ)),
                                  elemPathOf(key, i2)).err = NoErr)

\* C26: decoding is fail-fast in a fixed order.  Fields are decoded in
\* descriptor (declaration) order and elements by ascending index; the
\* failure returned is the one of the first failing field, and within a
\* sequence of the first failing index; after it no later field, no later
\* element and no later field of an enclosing record is read, converted or
\* written.
C26_FailFastInOrder ==
    StructCall =>
        \E T \in {TopFields} :
            /\ InOrder(T)
            /\ (err # NoErr) =>
                  \E k \in DOMAIN T :
                      /\ StoppedAtField(T, k)
                      /\ \A i \in ElemIndexes :
                            (~T[k].Embedded /\ Kind(T[k].Type) = "slice") =>
                                StoppedAtElement(T[k].MapKey, T[k].Type, i)

\* a call failed at the first element of a two-element sequence held by a
\* field that is not the last one, after an earlier field had been decoded
C26_Witness ==
    /\ StructCall
    /\ \E k \in Plain :
          /\ k > 1
          /\ FirstFailing(k)
          /\ \E e \in AsConversionError(err) : e.FieldPath = elemPathOf(TopFields[k].MapKey, 0)
          /\ Len(data.m[TopFields[k].MapKey].xs) = 2
          /\ \E n \in DOMAIN log : AtOrBelow(log[n].path, TopFields[1].MapKey)

\* a call failed inside a nested record held by a field that has a field
\* after it whose key the source holds
C26_WitnessNested ==
    /\ StructCall
    /\ \E k \in Plain :
          /\ FirstFailing(k)
          /\ \E e \in AsConversionError(err) : StartsWith(e.FieldPath, TopFields[k].MapKey \o <<".">>)
          /\ \E j \in Plain : j > k /\ TopFields[j].MapKey \in DOMAIN data.m


----------------------------------------------------------------------------
(* What a failed call leaves in the destination *)

\* the value under the key of field f is decoded through the pointer the
\* field holds: it is not nil, not stored as it is and not given to a
\* converter
ThroughPointer(f) ==
    /\ ~f.Embedded
    /\ Kind(f.Type) = "ptr"
    /\ f.MapKey \in DOMAIN data.m
    /\ data.m[f.MapKey].k # "nil"
    /\ ~AssignableTo(TypeOf(data.m[f.MapKey]), f.Type)
    /\ ~Find(converters, f.Type).ok

\* C27: a failed decode is not rolled back.  When field k is the first one
\* that fails, the fields before k hold their decoded values, a structure
\* that was allocated on the way to the failure (the pointee of a pointer
\* field) stays allocated, and the fields after k hold the values they had
\* before the call.
C27_FailureIsNotRolledBack ==
    (StructCall /\ err # NoErr /\ ~Panicked) =>
        \E T \in {TopFields} :
            \E k \in DOMAIN T :
                /\ FirstFailing(k)
                /\ \E before \in {unmarshalFields(CallState, data, pre, SubSeq(T, 1, k - 1), s_empty, 1).v} :
                      /\ \A j \in DOMAIN T :
                            (j < k) => dest.fs[T[j].Index + 1] = before.fs[T[j].Index + 1]
                      /\ \A j \in DOMAIN T :
                            (j > k) => dest.fs[T[j].Index + 1] = pre.fs[T[j].Index + 1]
                /\ ThroughPointer(T[k]) =>
                      /\ dest.fs[T[k].Index + 1].p # <<>>
                      /\ (pre.fs[T[k].Index + 1].p = <<>>) =>
                            dest.fs[T[k].Index + 1].p[1] =
                                unmarshalValue(CallState, data.m[T[k].MapKey], Elem(T[k].Type),
                                               Zero(Elem(T[k].Type)), T[k].MapKey).v

\* a call failed inside the record a nil pointer field was to point to: the
\* field before it holds its new value, the pointer holds a fresh pointee and
\* the field after it, whose key the source holds, is as it was
C27_Witness ==
    /\ StructCall
    /\ err # NoErr
    /\ ~Panicked
    /\ \E k \in DOMAIN TopFields :
          /\ k > 1
          /\ k < Len(TopFields)
          /\ FirstFailing(k)
          /\ ThroughPointer(TopFields[k])
          /\ pre.fs[TopFields[k].Index + 1].p = <<>>
          /\ dest.fs[TopFields[k].Index + 1].p # <<>>
          /\ dest.fs[TopFields[1].Index + 1] # pre.fs[TopFields[1].Index + 1]
          /\ TopFields[k + 1].MapKey \in DOMAIN data.m
          /\ dest.fs[TopFields[k + 1].Index + 1] = pre.fs[TopFields[k + 1].Index + 1]


----------------------------------------------------------------------------
(* The descriptor list of a struct type *)

\* the name of a key annotation: its text up to the first comma
AnnotationName(text) ==
    IF IndexOf(text, ",") = 0 THEN text ELSE SubSeq(text, 1, IndexOf(text, ",") - 1)

\* the text of the key annotation of declared field f, empty when it has none
KeyAnnotation(f) == IF tagName \in DOMAIN f.Tag THEN f.Tag[tagName] ELSE s_empty

\* declared field f is skipped: key annotations are read and the name of its
\* annotation is "-"
Skipped(f) == tagName # "-" /\ AnnotationName(KeyAnnotation(f)) = s_dash

\* the key under which declared field f is looked up in a source mapping
KeyOf(f) ==
    IF tagName = "-" \/ AnnotationName(KeyAnnotation(f)) = s_empty THEN f.Name
    ELSE AnnotationName(KeyAnnotation(f))

\* descriptor d describes the declared field at position d.Index of typ
Describes(d, typ) ==
    LET f == StructFields(typ)[d.Index + 1]
    IN  /\ d.StructFieldName = f.Name
        /\ d.Type = f.Type
        /\ d.MapKey # s_empty
        /\ d.MapKey = KeyOf(f)
        /\ d.Embedded = f.Anonymous
        /\ d.Default = IF defaultTagName \in DOMAIN f.Tag THEN <<f.Tag[defaultTagName]>> ELSE <<>>

----------------------------------------------------------------------------
(* A sequence whose element fails to convert *)

\* the call's error is a ConversionError at or below element i of the
\* sequence under key
FailedAtElement(key, i) ==
    \E e \in AsConversionError(err) : AtOrBelow(e.FieldPath, elemPathOf(key, i))

\* C29: when the element-by-element conversion of a sequence fails at index
\* i, the destination sequence slot is exactly as it was before the call: the
\* elements are decoded into a scratch sequence that is stored only after all
\* of them succeeded.
C29_FailedSequenceLeftAsBefore ==
    (StructCall /\ err # NoErr) =>
        \E T \in {TopFields} :
            \A k \in DOMAIN T :
                (/\ ~T[k].Embedded
                 /\ Kind(T[k].Type) = "slice"
                 /\ \E i \in ElemIndexes : FailedAtElement(T[k].MapKey, i)) =>
                    dest.fs[T[k].Index + 1] = pre.fs[T[k].Index + 1]

\* a sequence field that held elements before the call kept them when the
\* second element of its source failed after the first had been converted
C29_Witness ==
    /\ StructCall
    /\ \E k \in Plain :
          /\ Kind(TopFields[k].Type) = "slice"
          /\ FailedAtElement(TopFields[k].MapKey, 1)
          /\ \E n \in DOMAIN log : AtOrBelow(log[n].path, elemPathOf(TopFields[k].MapKey, 0))
          /\ pre.fs[TopFields[k].Index + 1].xs # <<>>
          /\ dest.fs[TopFields[k].Index + 1] = pre.fs[TopFields[k].Index + 1]


----------------------------------------------------------------------------
(* The engine step by step: the calling goroutine's stack of engine calls.
   gor holds the goroutine's stack (innermost call last), the value the
   innermost call just returned, and the Unmarshaler's state as the call
   goes on. *)

\* the destination types of the calls that are followed step by step; P is
\* the pointer type declared as `type P *P`
StepTypes == {"Node", "Doc", "P"}

\* the source mappings and the destinations offered for type t
StepCalls(t) ==
    CASE t = "Node" -> [d : ShapeMaps("Node"), p : {Zero("Node"), Prefilled("Node")}]
      [] t = "Doc" -> [d : SourceMaps("Doc"), p : {Zero("Doc"), Prefilled("Doc")}]
      [] t = "P" -> [d : {AnyMap(<<>>), AnyMap((s_value :> IntV("int", 1)))}, p : {Zero("P")}]

\* a call of unmarshalValue(d, rv, fieldPath) that has not run yet; cur is
\* what the slot rv holds
ValueFrame(d, typ, cur, fieldPath) ==
    [d |-> d, j |-> 0, typ |-> typ, path |-> fieldPath, cur |-> cur,
     fields |-> <<>>, fn |-> "unmarshalValue", slot |-> NilV]

\* unmarshalPtr waiting for the unmarshalValue call on its pointee
PtrFrame(d, typ, cur, fieldPath) ==
    [d |-> d, j |-> 0, typ |-> typ, path |-> fieldPath, cur |-> cur,
     fields |-> <<>>, fn |-> "unmarshalPtr", slot |-> NilV]

\* unmarshalStruct in its loop, at position j (1-based) of metadata.Fields
FieldsFrame(d, typ, cur, fields, fieldPath, j) ==
    [d |-> d, j |-> j, typ |-> typ, path |-> fieldPath, cur |-> cur,
     fields |-> fields, fn |-> "unmarshalStruct", slot |-> NilV]

\* unmarshalSliceElements in its conversion loop at index j (0-based); cur is
\* the scratch slice and slot what the destination holds
ElementsFrame(d, typ, scratch, slot, fieldPath, j) ==
    [d |-> d, j |-> j, typ |-> typ, path |-> fieldPath, cur |-> scratch,
     fields |-> <<>>, fn |-> "unmarshalSliceElements", slot |-> slot]

\* unmarshalValue(d, rv) comes to a nested unmarshalValue call: d is not
\* stored as it is, no converter is registered for the slot's type, and the
\* slot is a pointer given a non-nil value, a slice whose elements are to be
\* converted one by one, or a struct given a map[string]any
Descends(st, d, typ) ==
    /\ ~(d.k # "nil" /\ AssignableTo(TypeOf(d), typ))
    /\ ~Find(st.converters, typ).ok
    /\ CASE Kind(typ) = "ptr" -> d.k # "nil"
         [] Kind(typ) = "slice" ->
                /\ d.k \in {"slice", "array"}
                /\ Len(d.xs) > 0
                /\ Elem(TypeOf(d)) # Elem(typ)
                /\ Kind(Elem(typ)) # "interface"
         [] Kind(typ) = "struct" -> IsStringAnyMap(d)
         [] OTHER -> FALSE

Top == gor.stack[Len(gor.stack)]

Pop == SubSeq(gor.stack, 1, Len(gor.stack) - 1)

Running == pc = "running" /\ gor.stack # <<>>

\* u.Unmarshal(d, &p) is called: validateResultPointer passes and
\* unmarshalValue is called on what result points to
StepsCall ==
    /\ pc = "idle"
    /\ calls < MaxCalls
    /\ \E t \in StepTypes : \E c \in StepCalls(t) :
          /\ validateResultPointer(PointerTo(t)) = NoErr
          /\ result' = PointerTo(t)
          /\ data' = c.d
          /\ pre' = c.p
          /\ dest' = c.p
          /\ gor' = [st |-> [converters |-> converters, tagName |-> tagName,
                             defaultTagName |-> defaultTagName, cache |-> cache, log |-> <<>>],
                     stack |-> <<ValueFrame(c.d, t, c.p, s_empty)>>,
                     ret |-> <<>>]
    /\ err' = NoErr
    /\ log' = <<>>
    /\ calls' = calls + 1
    /\ pc' = "running"
    /\ UNCHANGED <<converters, tagName, defaultTagName, cache, inst>>

\* the innermost call is an unmarshalValue that makes no nested call: it
\* assigns, converts or fails, and returns
StepLeaf ==
    /\ Running
    /\ Top.fn = "unmarshalValue"
    /\ ~Descends(gor.st, Top.d, Top.typ)
    /\ LET r == unmarshalValue(gor.st, Top.d, Top.typ, Top.cur, Top.path)
       IN  gor' = [st |-> r.st, stack |-> Pop, ret |-> <<[err |-> r.err, v |-> r.v]>>]
    /\ UNCHANGED <<converters, tagName, defaultTagName, cache, calls, pc, result, data, pre,
                   dest, err, log, inst>>

\* the innermost call is an unmarshalValue that dispatches on the slot's
\* kind: unmarshalPtr allocates the pointee and calls unmarshalValue on it,
\* unmarshalSlice makes the scratch slice and enters its loop, unmarshalStruct
\* fetches the metadata and enters its loop
StepDispatch ==
    /\ Running
    /\ Top.fn = "unmarshalValue"
    /\ Descends(gor.st, Top.d, Top.typ)
    /\ Len(gor.stack) < MaxDepth
    /\ LET f == Top
           st1 == Logged(gor.st, "Find", f.typ, f.path)
       IN  CASE Kind(f.typ) = "ptr" ->
                    LET pointee == IF f.cur.p = <<>> THEN Zero(Elem(f.typ)) ELSE f.cur.p[1]
                        st2 == IF f.cur.p = <<>> THEN Logged(st1, "Set", f.typ, f.path) ELSE st1
                    IN  gor' = [st |-> st2,
                                stack |-> Pop \o <<PtrFrame(f.d, f.typ, f.cur, f.path),
                                                   ValueFrame(f.d, Elem(f.typ), pointee, f.path)>>,
                                ret |-> <<>>]
             [] Kind(f.typ) = "slice" ->
                    LET scratch == SliceV(f.typ, [i \in 1..Len(f.d.xs) |-> Zero(Elem(f.typ))])
                    IN  gor' = [st |-> st1,
                                stack |-> Pop \o <<ElementsFrame(f.d, f.typ, scratch, f.cur, f.path, 0)>>,
                                ret |-> <<>>]
             [] Kind(f.typ) = "struct" ->
                    LET got == GetMetadata(st1.cache, st1.tagName, st1.defaultTagName, f.typ)
                        st2 == Logged([st1 EXCEPT !.cache = got.cache], "GetMetadata", f.typ, f.path)
                    IN  gor' = [st |-> st2,
                                stack |-> Pop \o <<FieldsFrame(f.d, f.typ, f.cur, got.metadata.Fields,
                                                               f.path, 1)>>,
                                ret |-> <<>>]
    /\ UNCHANGED <<converters, tagName, defaultTagName, cache, calls, pc, result, data, pre,
                   dest, err, log, inst>>

\* the unmarshalValue call on the pointee returned: unmarshalPtr returns its
\* outcome
StepPtrReturn ==
    /\ Running
    /\ Top.fn = "unmarshalPtr"
    /\ gor.ret # <<>>
    /\ gor' = [gor EXCEPT !.stack = Pop,
                          !.ret = <<[err |-> gor.ret[1].err, v |-> PtrV(Top.typ, <<gor.ret[1].v>>)]>>]
    /\ UNCHANGED <<converters, tagName, defaultTagName, cache, calls, pc, result, data, pre,
                   dest, err, log, inst>>

\* unmarshalStruct's loop comes to field j: the field is passed over, or
\* unmarshalValue is called for it (by unmarshalEmbeddedField for an embedded
\* struct); after the last field unmarshalStruct returns nil
StepField ==
    /\ Running
    /\ Top.fn = "unmarshalStruct"
    /\ gor.ret = <<>>
    /\ LET f == Top
       IN  IF f.j > Len(f.fields)
           THEN gor' = [gor EXCEPT !.stack = Pop, !.ret = <<[err |-> NoErr, v |-> f.cur]>>]
           ELSE LET field == f.fields[f.j]
                    slot == f.cur.fs[field.Index + 1]
                    exists == field.MapKey \in DOMAIN f.d.m
                    fullPath == buildFieldPath(f.path, field.MapKey)
                    next == Pop \o <<[f EXCEPT !.j = f.j + 1]>>
                IN  IF field.Embedded
                    THEN IF Kind(field.Type) # "struct"
                         THEN gor' = [gor EXCEPT !.stack = next]
                         ELSE /\ Len(gor.stack) < MaxDepth
                              /\ gor' = [gor EXCEPT !.stack =
                                            gor.stack \o
                                            <<ValueFrame(IF field.StructFieldName \in DOMAIN f.d.m
                                                            /\ IsStringAnyMap(f.d.m[field.StructFieldName])
                                                         THEN f.d.m[field.StructFieldName] ELSE f.d,
                                                         field.Type, slot, f.path)>>]
                    ELSE IF ~exists /\ field.Default = <<>>
                    THEN gor' = [gor EXCEPT !.stack = next]
                    ELSE /\ Len(gor.stack) < MaxDepth
                         /\ gor' = [gor EXCEPT
                                       !.stack = gor.stack \o
                                                 <<ValueFrame(IF exists THEN f.d.m[field.MapKey]
                                                              ELSE StrV(field.Default[1]),
                                                              field.Type, slot, fullPath)>>,
                                       !.st = IF exists THEN gor.st
                                              ELSE Logged(gor.st, "Default", field.Type, fullPath)]
    /\ UNCHANGED <<converters, tagName, defaultTagName, cache, calls, pc, result, data, pre,
                   dest, err, log, inst>>

\* the call made for field j returned: on an error unmarshalStruct returns it
\* (wrapped with the field's path for a plain field), otherwise the loop goes
\* on with the next field
StepFieldReturn ==
    /\ Running
    /\ Top.fn = "unmarshalStruct"
    /\ gor.ret # <<>>
    /\ LET f == Top
           field == f.fields[f.j]
           r == gor.ret[1]
           cur1 == [f.cur EXCEPT !.fs[field.Index + 1] = r.v]
           fullPath == buildFieldPath(f.path, field.MapKey)
       IN  IF r.err # NoErr
           THEN gor' = [gor EXCEPT
                           !.stack = Pop,
                           !.ret = <<[err |-> IF field.Embedded \/ r.err.k = "panic" THEN r.err
                                              ELSE WrapError(fullPath, r.err),
                                      v |-> cur1]>>]
           ELSE gor' = [gor EXCEPT !.stack = Pop \o <<[f EXCEPT !.cur = cur1, !.j = f.j + 1]>>,
                                   !.ret = <<>>]
    /\ UNCHANGED <<converters, tagName, defaultTagName, cache, calls, pc, result, data, pre,
                   dest, err, log, inst>>

\* unmarshalSliceElements' loop comes to index j: unmarshalValue is called
\* for the element; after the last one the scratch slice is stored
StepElement ==
    /\ Running
    /\ Top.fn = "unmarshalSliceElements"
    /\ gor.ret = <<>>
    /\ LET f == Top
       IN  IF f.j >= Len(f.d.xs)
           THEN gor' = [st |-> Logged(gor.st, "Set", f.typ, f.path), stack |-> Pop,
                        ret |-> <<[err |-> NoErr, v |-> f.cur]>>]
           ELSE /\ Len(gor.stack) < MaxDepth
                /\ gor' = [gor EXCEPT !.stack =
                              gor.stack \o <<ValueFrame(f.d.xs[f.j + 1], Elem(f.typ), f.cur.xs[f.j + 1],
                                                        elemPathOf(f.path, f.j))>>]
    /\ UNCHANGED <<converters, tagName, defaultTagName, cache, calls, pc, result, data, pre,
                   dest, err, log, inst>>

\* the call made for element j returned: on an error unmarshalSliceElements
\* returns it and the destination keeps what it held, otherwise the loop goes
\* on with the next element
StepElementReturn ==
    /\ Running
    /\ Top.fn = "unmarshalSliceElements"
    /\ gor.ret # <<>>
    /\ LET f == Top
           r == gor.ret[1]
           slice1 == [f.cur EXCEPT !.xs[f.j + 1] = r.v]
       IN  IF r.err # NoErr
           THEN gor' = [gor EXCEPT !.stack = Pop, !.ret = <<[err |-> r.err, v |-> f.slot]>>]
           ELSE gor' = [gor EXCEPT !.stack = Pop \o <<[f EXCEPT !.cur = slice1, !.j = f.j + 1]>>,
                                   !.ret = <<>>]
    /\ UNCHANGED <<converters, tagName, defaultTagName, cache, calls, pc, result, data, pre,
                   dest, err, log, inst>>

\* the innermost call is about to make a nested call
Calling ==
    /\ gor.ret = <<>>
    /\ CASE Top.fn = "unmarshalValue" -> Descends(gor.st, Top.d, Top.typ)
         [] Top.fn = "unmarshalStruct" ->
                /\ Top.j <= Len(Top.fields)
                /\ IF Top.fields[Top.j].Embedded
                   THEN Kind(Top.fields[Top.j].Type) = "struct"
                   ELSE \/ Top.fields[Top.j].MapKey \in DOMAIN Top.d.m
                        \/ Top.fields[Top.j].Default # <<>>
         [] Top.fn = "unmarshalSliceElements" -> Top.j < Len(Top.d.xs)
         [] OTHER -> FALSE

\* the nested call does not fit on the goroutine's stack: the Go runtime ends
\* the process with the fatal error "stack overflow"; nothing is returned to
\* the caller and no deferred recover can catch it
StepOverflow ==
    /\ Running
    /\ Len(gor.stack) >= MaxDepth
    /\ Calling
    /\ pc' = "fatal"
    /\ UNCHANGED <<converters, tagName, defaultTagName, cache, calls, result, data, pre,
                   dest, err, log, gor, inst>>

\* the outermost unmarshalValue returned: Unmarshal returns its error
StepsFinish ==
    /\ pc = "running"
    /\ gor.stack = <<>>
    /\ gor.ret # <<>>
    /\ dest' = gor.ret[1].v
    /\ err' = gor.ret[1].err
    /\ cache' = gor.st.cache
    /\ log' = gor.st.log
    /\ pc' = "returned"
    /\ gor' = <<>>
    /\ UNCHANGED <<converters, tagName, defaultTagName, calls, result, data, pre, inst>>

\* the steps of the goroutine that runs the call
StepsRun ==
    \/ StepLeaf
    \/ StepDispatch
    \/ StepPtrReturn
    \/ StepField
    \/ StepFieldReturn
    \/ StepElement
    \/ StepElementReturn
    \/ StepOverflow
    \/ StepsFinish

NextSteps == StepsCall \/ StepsRun \/ Return

\* the goroutine that runs the call is scheduled as long as it can take a step
SpecSteps == Init /\ [][NextSteps]_vars /\ WF_vars(StepsRun)

\* a call that returned left what Unmarshaler.Unmarshal computes in one piece
StepsAgree ==
    (pc = "returned" /\ result.elem # "P") =>
        \E r \in {UnmarshalerUnmarshal(CallState, data, result, pre)} :
            /\ dest = r.v
            /\ err = r.err
            /\ log = r.st.log

\* C30: every Unmarshal call terminates, for every finite source mapping and
\* every destination type, self-referential types reached through pointer or
\* sequence fields and embedded records decoded in promoted form included:
\* every nested call goes one level down in the source value or in the
\* destination type, and nothing is retried.
C30_EveryCallTerminates == (pc = "running") ~> (pc = "returned")

====
